---- MODULE Spec2Model ----
(***************************************************************************)
(* Model of the multi-environment Odoo provisioning scripts:               *)
(*   install_odoo.py  (direct installer, ENVIRONMENTS table)               *)
(*   install.py       (YAML-configured installer)                          *)
(*   verify_odoo.py   (read-only audit of the provisioned environments)    *)
(*   setup_project.py (the installer it carries: load_configuration,       *)
(*                     Environment)                                        *)
(* The host (users, file system, PostgreSQL, systemd, nginx) is one record *)
(* `host`; every shell command is an operator from a host to a result      *)
(* [rc, out, host, fault]; every step of the scripts is one action.        *)
(***************************************************************************)
EXTENDS Naturals, Integers, Sequences, FiniteSets, TLC

VARIABLES
    host,        \* the machine: users, fs, roles, dbs, pip, units, nginx, ufw, packages
    cfgFiles,    \* the --config-dir of install.py: file name -> parsed content
    sel,         \* args.environments of the running invocation
    idx,         \* position of the for-loop over sel (1-based)
    pc,          \* next statement of the running script
    sub,         \* inner loop position (mkdir loop, extension-module steps)
    config,      \* install.py: the mapping load_environment_config returned
    results,     \* install.py: the results dict of main
    summary,     \* the per-target lines printed at the end of the invocation
    exitCode,    \* value handed to sys.exit by the last finished invocation
    run,         \* number of invocations started so far
    faults,      \* transient command failures injected so far
    cmdlog,      \* commands executed by the running invocation, in order
    hostAtStart, \* host when the running invocation started
    prevExit,    \* exitCode of the invocation before the running one
    prevSel,     \* args.environments of the invocation before the running one
    madeOnce,    \* resources whose creation command has succeeded
    madeAgain,   \* resources whose creation command has succeeded twice or more
    existsErr,   \* resources whose creation command ran while they existed
    kept,        \* by <<pass, artifact>>: the file and the temporary file an
                 \* existence check of the running invocation found in place
    alone,       \* the audits that ran with no other audit running: the
                 \* selection and the report of each
    other,       \* the script process that is not running now: its local state
    call,        \* the last run_command call looked at: arguments, outcome, result
    heap,        \* setup_project.py's installer: Python objects, names bound, connections
    odoo         \* the Odoo database of crm_contacto_comercial: messages, leads, requests

vars == <<host, cfgFiles, sel, idx, pc, sub, config, results, summary, exitCode,
          run, faults, cmdlog, hostAtStart, prevExit, prevSel, madeOnce, madeAgain,
          existsErr, kept, alone, other, call, heap, odoo>>

(***************************************************************************)
(* Bounds of the model.                                                    *)
(***************************************************************************)
MaxSel == 2      \* longest --environments list
MaxRuns == 3     \* invocations of a script one after the other
MaxFaults == 1   \* transient failures of strict commands over all invocations

NoExit == 0 - 1  \* no invocation has finished yet
NoRes == <<>>      \* "no resource": the command is not a guarded creation
NoProc == <<>>     \* no second script process
NoCall == <<>>     \* no run_command call looked at yet

\* no message, no lead, no request
NoDb == [msgs |-> <<>>, leads |-> <<>>, tx |-> <<>>]

\* no object allocated, no name bound, no connection
NoHeap == [objs |-> <<>>, default_config |-> 0, configs |-> <<>>, remote |-> FALSE,
           conns |-> {}]

(***************************************************************************)
(* install_odoo.py: the ENVIRONMENTS table and the names derived from it.  *)
(***************************************************************************)
\* the table with uat listening on the long-polling port of production
EnvironmentsPortClash ==
    [production |-> [prefix |-> "prod_",  port |-> 8069,
                     domain |-> "production.example.com", memory_limit |-> "4G"],
     uat        |-> [prefix |-> "uat_",   port |-> 9069,
                     domain |-> "uat.example.com",        memory_limit |-> "2G"],
     testing    |-> [prefix |-> "test_",  port |-> 8071,
                     domain |-> "testing.example.com",    memory_limit |-> "2G"],
     training   |-> [prefix |-> "train_", port |-> 8072,
                     domain |-> "training.example.com",   memory_limit |-> "2G"]]

ENVIRONMENTS ==
    [production |-> [prefix |-> "prod_",  port |-> 8069,
                     domain |-> "production.example.com", memory_limit |-> "4G"],
     uat        |-> [prefix |-> "uat_",   port |-> 8070,
                     domain |-> "uat.example.com",        memory_limit |-> "2G"],
     testing    |-> [prefix |-> "test_",  port |-> 8071,
                     domain |-> "testing.example.com",    memory_limit |-> "2G"],
     training   |-> [prefix |-> "train_", port |-> 8072,
                     domain |-> "training.example.com",   memory_limit |-> "2G"]]

EnvNames == DOMAIN ENVIRONMENTS

\* The --environments lists the model runs: every list of 1..MaxSel names over
\* SelEnvs (argparse nargs='+' with choices: repetitions are accepted).
SelEnvs == {"production", "uat"}

RECURSIVE SeqsUpTo(_, _)
SeqsUpTo(S, n) ==
    IF n = 0 THEN {<<>>}
    ELSE LET shorter == SeqsUpTo(S, n - 1)
         IN  shorter \cup {Append(s, e) : s \in {t \in shorter : Len(t) = n - 1}, e \in S}

Selections == SeqsUpTo(SelEnvs, MaxSel) \ {<<>>}

\* Paths are sequences of components: <<"opt", "prod_odoo">> is /opt/prod_odoo.
OPrefix(e)      == ENVIRONMENTS[e].prefix
OPort(e)        == ENVIRONMENTS[e].port
ODomain(e)      == ENVIRONMENTS[e].domain
OdooUser(e)     == OPrefix(e) \o "odoo"
OdooHome(e)     == <<"opt", OPrefix(e) \o "odoo">>
OdooLogDir(e)   == <<"var", "log", OPrefix(e) \o "odoo">>
OdooConfigDir(e) == <<"etc", OPrefix(e) \o "odoo">>
OdooAddonsDir(e) == OdooHome(e) \o <<"addons">>
OdooSrcDir(e)   == OdooHome(e) \o <<"odoo">>
VenvDir(e)      == OdooHome(e) \o <<"venv">>
DbUser(e)       == OPrefix(e) \o "odoo"
DbPassword(e)   == "odoo_" \o e \o "_pass"
DbName(e)       == OPrefix(e) \o "odoo"
ConfigFile(e)   == OdooConfigDir(e) \o <<"odoo.conf">>
ServiceName(e)  == OPrefix(e) \o "odoo.service"
ServiceFile(e)  == <<"etc", "systemd", "system", ServiceName(e)>>
NginxConf(e)    == <<"etc", "nginx", "sites-available", OPrefix(e) \o "odoo">>
NginxLink(e)    == <<"etc", "nginx", "sites-enabled", OPrefix(e) \o "odoo">>
ModuleDir(e)    == OdooAddonsDir(e) \o <<"crm_contacto_comercial">>
MkdirDirs(e)    == <<OdooLogDir(e), OdooConfigDir(e), OdooAddonsDir(e)>>

\* Temporary files are written in the working directory of the script.
TempConfig  == <<".", "temp_config.conf">>
TempService == <<".", "temp_service.service">>
TempNginx   == <<".", "temp_nginx.conf">>

\* Rendered artifacts, by the variables their f-strings interpolate, and the
\* length of the rendered text in bytes: the fixed part of the template (the
\* four-digit ports included) and the interpolated names.
ConfigContent(e) ==
    [kind |-> "odoo.conf", db_user |-> DbUser(e), db_password |-> DbPassword(e),
     dbfilter |-> DbName(e), http_port |-> OPort(e),
     longpolling_port |-> OPort(e) + 1000,
     bytes |-> 502 + 5 * Len(OPrefix(e)) + Len(e)]
ServiceContent(e) ==
    [kind |-> "unit", User |-> OdooUser(e), Group |-> OdooUser(e),
     ExecStart |-> <<VenvDir(e), OdooSrcDir(e), ConfigFile(e)>>,
     bytes |-> 373 + 6 * Len(OPrefix(e)) + Len(e)]
NginxContent(e) ==
    [kind |-> "vhost", upstream |-> OPrefix(e) \o "odoo", server |-> OPort(e),
     chat |-> OPrefix(e) \o "odoo-chat", chat_server |-> OPort(e) + 1000,
     server_name |-> ODomain(e),
     bytes |-> 1065 + 7 * Len(OPrefix(e)) + Len(ODomain(e))]

(***************************************************************************)
(* The host and the shell commands the scripts run on it.                  *)
(***************************************************************************)
CleanHost ==
    [users    |-> {},          \* system users
     fs       |-> <<>>,        \* path -> [type, owner, mode, content]
     roles    |-> {},          \* PostgreSQL roles
     rolePw   |-> {},          \* <<role, password>> set by ALTER USER
     dbs      |-> {},          \* <<database, owner>>
     pip      |-> {},          \* <<venv, package set>> installed
     loaded   |-> {},          \* unit files systemd has read (daemon-reload)
     enabled  |-> {},          \* enabled units
     active   |-> {},          \* running units
     aptIndex |-> FALSE,       \* apt update has run
     pkgs     |-> FALSE,       \* the dependency packages are installed
     nginx    |-> {},          \* sites-enabled links the running nginx has loaded
     ufw      |-> {},          \* firewall rules added with ufw allow
     fds      |-> <<>>,        \* open file descriptors, by holder (the DEST of a
                               \* running mv, <<"py", target>> for the script):
                               \* [ino, at (the path naming the inode now),
                               \*  path (the name it was opened by), node]
     listen   |-> {}]          \* ports with a listening socket

Exists(h, p) == p \in DOMAIN h.fs

IsUnder(p, root) == Len(p) >= Len(root) /\ SubSeq(p, 1, Len(root)) = root

Node(type, owner, mode, content) ==
    [type |-> type, owner |-> owner, mode |-> mode, content |-> content]

\* fs with path p set to node n
Put(fs, p, n) == (p :> n) @@ fs

\* fs without path p
Drop(fs, p) == [q \in (DOMAIN fs) \ {p} |-> fs[q]]

\* mkdir -p p: p and its missing ancestors become root-owned directories
MkdirP(fs, p) ==
    LET missing == {SubSeq(p, 1, n) : n \in 1..Len(p)} \ DOMAIN fs
    IN  [q \in missing |-> Node("dir", "root", "755", "")] @@ fs

\* chown -R owner root
ChownR(fs, root, owner) ==
    [q \in DOMAIN fs |-> IF IsUnder(q, root) THEN [fs[q] EXCEPT !.owner = owner] ELSE fs[q]]

\* What a command did: exit status, captured stdout and stderr, the host it
\* leaves, and whether the outcome is an injected transient failure.
Ok(h)      == [rc |-> 0, out |-> "", err |-> "", host |-> h, fault |-> FALSE]
OkOut(h, o) == [rc |-> 0, out |-> o, err |-> "", host |-> h, fault |-> FALSE]
Fail(h, c) == [rc |-> c, out |-> "", err |-> "error", host |-> h, fault |-> FALSE]

\* id -u USER > /dev/null 2>&1 || echo 'no'
ShIdCheck(h, user) == OkOut(h, IF user \in h.users THEN "" ELSE "no")

\* useradd -m -d HOME -U -r -s /bin/bash USER
ShUserAdd(h, user, home) ==
    IF user \in h.users THEN Fail(h, 9)
    ELSE Ok([h EXCEPT !.users = @ \cup {user},
                      !.fs = Put(MkdirP(@, home), home, Node("dir", user, "755", ""))])

\* mkdir -p DIR
ShMkdirP(h, d) == Ok([h EXCEPT !.fs = MkdirP(@, d)])

\* git clone ... DEST
ShGitClone(h, dest) ==
    IF Exists(h, dest) THEN Fail(h, 128)
    ELSE Ok([h EXCEPT !.fs = Put(MkdirP(@, dest), dest, Node("dir", "root", "755", "odoo-16.0"))])

\* python3 -m venv DIR
ShVenv(h, d) == Ok([h EXCEPT !.fs = MkdirP(@, d)])

\* VENV/bin/pip install WHAT
ShPip(h, venv, what) ==
    IF ~Exists(h, venv) THEN Fail(h, 127)
    ELSE Ok([h EXCEPT !.pip = @ \cup {<<venv, what>>}])

\* psql -tAc "SELECT 1 FROM pg_roles WHERE rolname='ROLE'" | grep -q 1 || echo 'no'
ShRoleCheck(h, role) == OkOut(h, IF role \in h.roles THEN "" ELSE "no")

\* createuser -s ROLE
ShCreateUser(h, role) ==
    IF role \in h.roles THEN Fail(h, 1)
    ELSE Ok([h EXCEPT !.roles = @ \cup {role}])

\* psql -c "ALTER USER ROLE WITH PASSWORD 'PW'"
ShAlterUser(h, role, pw) ==
    IF role \notin h.roles THEN Fail(h, 1)
    ELSE Ok([h EXCEPT !.rolePw = {rp \in @ : rp[1] # role} \cup {<<role, pw>>}])

\* psql -lqt | cut -d \| -f 1 | grep -qw DB || echo 'no'
ShDbCheck(h, db) == OkOut(h, IF \E d \in h.dbs : d[1] = db THEN "" ELSE "no")

\* createdb --owner=ROLE DB
ShCreateDb(h, role, db) ==
    IF (\E d \in h.dbs : d[1] = db) \/ role \notin h.roles THEN Fail(h, 1)
    ELSE Ok([h EXCEPT !.dbs = @ \cup {<<db, role>>}])

\* no path: the inode of a descriptor has no name left
NoPath == <<>>

\* what a file holds between open(..., "w") and the write
EmptyFile == [kind |-> "empty", bytes |-> 0]

\* What a file holds after text is written at offset 0 of a descriptor while
\* the file holds old: a write does not truncate, so a shorter text replaces
\* the start of a longer one and the rest of the longer one stays
Overlay(old, text) ==
    IF text.bytes >= old.bytes THEN text
    ELSE [kind |-> "mixed", head |-> text, tail |-> old, bytes |-> old.bytes]

\* the open descriptors after path p has been unlinked
Unlinked(fds, p) ==
    [d \in DOMAIN fds |-> IF fds[d].at = p THEN [fds[d] EXCEPT !.at = NoPath] ELSE fds[d]]

\* the open descriptors after rename(src, dest): the inode of src is now named
\* dest, the inode dest named before has no name
Renamed(fds, src, dest) ==
    [d \in DOMAIN fds |-> IF fds[d].at = src THEN [fds[d] EXCEPT !.at = dest]
                          ELSE IF fds[d].at = dest THEN [fds[d] EXCEPT !.at = NoPath]
                          ELSE fds[d]]

\* the open descriptors after the inode ino got content c
Rewritten(fds, ino, c) ==
    [d \in DOMAIN fds |-> IF fds[d].ino = ino THEN [fds[d] EXCEPT !.node.content = c]
                          ELSE fds[d]]

\* the inode number path p is known by among the open descriptors, or a new one
InoAt(fds, p) ==
    IF \E d \in DOMAIN fds : fds[d].at = p
    THEN fds[CHOOSE d \in DOMAIN fds : fds[d].at = p].ino
    ELSE CHOOSE n \in 1..(Cardinality(DOMAIN fds) + 1) :
             \A d \in DOMAIN fds : fds[d].ino # n

\* holder key opens the existing path p
FdOpen(h, key, p) ==
    (key :> [ino |-> InoAt(h.fds, p), at |-> p, path |-> p, node |-> h.fs[p]]) @@ h.fds

\* the script's descriptor for its temporary file
PyKey(e) == <<"py", e>>

\* open(TEMP, "w")   (the script's own uid): TEMP is created empty, or the
\* file it names is truncated in place: a process that holds it open reads
\* the new content
PyOpen(h, key, temp) ==
    LET h1 == IF Exists(h, temp)
              THEN [h EXCEPT !.fs[temp].content = EmptyFile,
                             !.fds = Rewritten(@, InoAt(@, temp), EmptyFile)]
              ELSE [h EXCEPT !.fs = Put(@, temp, Node("file", "installer", "644",
                                                      EmptyFile))]
    IN  [h1 EXCEPT !.fds = FdOpen(h1, key, temp)]

\* f.write(CONTENT) and the end of the with block: the bytes go, at offset 0,
\* to the file the descriptor was opened on, whatever name it has now and
\* whatever was written to it since the open, and f is closed
PyWrite(h, key, content) ==
    LET f    == h.fds[key]
        rest == [d \in (DOMAIN h.fds) \ {key} |-> h.fds[d]]
        now  == Overlay(f.node.content, content)
    IN  [h EXCEPT !.fs = IF f.at = NoPath THEN @ ELSE [@ EXCEPT ![f.at].content = now],
                  !.fds = Rewritten(rest, f.ino, now)]

\* mv SRC DEST  (sudo: rename keeps owner and mode of SRC)
ShMv(h, src, dest) ==
    IF ~Exists(h, src) THEN Fail(h, 1)
    ELSE Ok([h EXCEPT !.fs = Put(Drop(@, src), dest, h.fs[src]),
                      !.fds = Renamed(@, src, dest)])

\* chown OWNER:OWNER PATH
ShChown(h, owner, p) ==
    IF ~Exists(h, p) \/ owner \notin h.users THEN Fail(h, 1)
    ELSE Ok([h EXCEPT !.fs[p].owner = owner])

\* chmod MODE PATH
ShChmod(h, mode, p) ==
    IF ~Exists(h, p) THEN Fail(h, 1)
    ELSE Ok([h EXCEPT !.fs[p].mode = mode])

\* chown -R OWNER:OWNER ROOT
ShChownR(h, owner, root) ==
    IF ~Exists(h, root) \/ owner \notin h.users THEN Fail(h, 1)
    ELSE Ok([h EXCEPT !.fs = ChownR(@, root, owner)])

\* ln -sf TARGET /etc/nginx/sites-enabled/
ShLink(h, target, link) ==
    Ok([h EXCEPT !.fs = Put(@, link, Node("link", "root", "777", target))])

\* systemctl daemon-reload
ShDaemonReload(h) ==
    Ok([h EXCEPT !.loaded = {p[Len(p)] : p \in {q \in DOMAIN h.fs :
                                 IsUnder(q, <<"etc", "systemd", "system">>) /\ Len(q) = 4}}])

\* systemctl enable UNIT   (UNIT's file is unitFile)
ShEnable(h, unit, unitFile) ==
    IF ~Exists(h, unitFile) THEN Fail(h, 1)
    ELSE Ok([h EXCEPT !.enabled = @ \cup {unit}])

\* systemctl start UNIT
ShStart(h, unit, unitFile) ==
    IF ~Exists(h, unitFile) THEN Fail(h, 5)
    ELSE Ok([h EXCEPT !.active = @ \cup {unit}])

\* systemctl is-active UNIT
ShIsActive(h, unit) ==
    IF unit \in h.active THEN OkOut(h, "active") ELSE [Fail(h, 3) EXCEPT !.out = "inactive"]

\* apt update
ShAptUpdate(h) == Ok([h EXCEPT !.aptIndex = TRUE])

\* apt install -y PACKAGES
ShAptInstall(h) == Ok([h EXCEPT !.pkgs = TRUE])

\* systemctl reload nginx
ShReloadNginx(h) ==
    Ok([h EXCEPT !.nginx = {p \in DOMAIN h.fs :
                               IsUnder(p, <<"etc", "nginx", "sites-enabled">>) /\ Len(p) = 4}])

\* systemctl restart nginx: the new process reads the enabled sites
ShRestartNginx(h) ==
    Ok([h EXCEPT !.nginx = {p \in DOMAIN h.fs :
                               IsUnder(p, <<"etc", "nginx", "sites-enabled">>) /\ Len(p) = 4}])

\* id -u USER > /dev/null 2>&1 || useradd -m -d HOME -U -r -s /bin/bash USER
ShIdOrUserAdd(h, user, home) ==
    IF user \in h.users THEN Ok(h) ELSE ShUserAdd(h, user, home)

\* ufw allow RULE
ShUfwAllow(h, rule) == Ok([h EXCEPT !.ufw = @ \cup {rule}])


(***************************************************************************)
(* install_odoo.py: run_command and the control skeleton of main.          *)
(***************************************************************************)
CurEnv == sel[idx]

\* What a strict command can do now: its effect on the host, or (while the
\* fault budget lasts) a transient failure that leaves the host as it is.
Exec(r) ==
    {r} \cup (IF r.rc = 0 /\ faults < MaxFaults
              THEN {[rc |-> 1, out |-> "", err |-> "error", host |-> host, fault |-> TRUE]}
              ELSE {})

\* str.strip() on the texts of the model: only "o\n" has white space to lose
Strip(t) == IF t = "o\n" THEN "o" ELSE t

\* run_command(cmd, check): subprocess.run(check=check) raises on a non-zero
\* status only when check is set; otherwise stdout.strip() is returned.
RunCommandOdoo(r, check) ==
    IF check /\ r.rc # 0 THEN [raised |-> TRUE, ret |-> ""]
    ELSE [raised |-> FALSE, ret |-> Strip(r.out)]

\* one line of the command log: the command, the environment and loop position
\* it ran for (0: before the loop), whether it ran strict, and its exit status
Entry(label, env, strict, r) ==
    [cmd |-> label, env |-> env, i |-> idx, strict |-> strict, rc |-> r.rc]

Track(rsrc, r, existed) ==
    /\ madeOnce' = IF rsrc # NoRes /\ r.rc = 0 THEN madeOnce \cup {rsrc} ELSE madeOnce
    /\ madeAgain' = IF rsrc # NoRes /\ r.rc = 0 /\ rsrc \in madeOnce
                    THEN madeAgain \cup {rsrc} ELSE madeAgain
    /\ existsErr' = IF rsrc # NoRes /\ existed THEN existsErr \cup {rsrc} ELSE existsErr
    /\ UNCHANGED <<kept, alone>>

NoTrack == UNCHANGED <<madeOnce, madeAgain, existsErr, kept, alone>>

\* a new invocation: no existence check has been made yet
NewTrack == kept' = <<>> /\ UNCHANGED <<madeOnce, madeAgain, existsErr, alone>>

\* the node at path p, or none
NoNode == [kind |-> "none"]
NodeAt(h, p) == IF p \in DOMAIN h.fs THEN h.fs[p] ELSE NoNode

\* os.path.exists(final) of artifact a in the running pass: when it answers
\* True, what final and the temporary file of a are at that moment
Keep(a, final, temp) ==
    /\ kept' = IF final \in DOMAIN host.fs
               THEN (<<idx, a>> :> [file |-> host.fs[final], temp |-> NodeAt(host, temp)]) @@ kept
               ELSE kept
    /\ UNCHANGED <<madeOnce, madeAgain, existsErr, alone>>

\* main: except Exception as e: ... return 1
O_Except == pc' = "done" /\ exitCode' = 1

\* run_command(cmd) with check=True at statement `label`, then go to `next`
O_Strict(label, env, r, next) ==
    /\ cmdlog' = Append(cmdlog, Entry(label, env, TRUE, r))
    /\ host' = r.host
    /\ faults' = IF r.fault THEN faults + 1 ELSE faults
    /\ IF RunCommandOdoo(r, TRUE).raised
       THEN O_Except
       ELSE pc' = next /\ UNCHANGED exitCode

\* run_command(cmd, check=False): the caller branches on the returned text
O_Lenient(label, env, r) ==
    /\ cmdlog' = Append(cmdlog, Entry(label, env, FALSE, r))
    /\ host' = r.host
    /\ UNCHANGED <<faults, exitCode>>

\* What an existence probe `psql ... | grep -q ... || echo 'no'` can answer
\* now: the truth, or (while the fault budget lasts) 'no' for a resource that
\* exists, when psql cannot reach the server: grep then matches nothing and
\* echo prints no, with status 0
ProbeExec(r) ==
    {r} \cup (IF r.out # "no" /\ faults < MaxFaults
              THEN {[r EXCEPT !.out = "no", !.err = "error", !.fault = TRUE]}
              ELSE {})

\* run_command(probe, check=False) whose psql may fail
O_Probe(label, env, r) ==
    /\ cmdlog' = Append(cmdlog, Entry(label, env, FALSE, r))
    /\ host' = r.host
    /\ faults' = IF r.fault THEN faults + 1 ELSE faults
    /\ UNCHANGED exitCode

\* a Python-level branch or file write: no command is executed
O_Local(next) ==
    /\ pc' = next
    /\ UNCHANGED <<faults, exitCode, cmdlog>>

OFrame == UNCHANGED <<cfgFiles, config, results, sel, run, hostAtStart, prevExit, prevSel,
                      other, call, heap, odoo>>

\* python3 install_odoo.py --environments s, for some s of S
O_StartFrom(S) ==
    /\ pc \in {"idle", "done"}
    /\ run < MaxRuns
    /\ \E s \in S : sel' = s
    /\ run' = run + 1
    /\ pc' = "deps_update"
    /\ idx' = 0 /\ sub' = 0
    /\ cmdlog' = <<>> /\ summary' = <<>>
    /\ hostAtStart' = host
    /\ prevExit' = exitCode /\ prevSel' = sel
    /\ exitCode' = NoExit
    /\ NewTrack
    /\ UNCHANGED <<host, cfgFiles, config, results, faults, other, call, heap, odoo>>

O_Start == O_StartFrom(Selections)

\* the only invocation, with any selection
O_StartAny == pc = "idle" /\ O_Start

\* the same with one environment selected
O_StartOne == O_StartFrom({<<e>> : e \in SelEnvs})

\* the first invocation on the clean host
O_StartFirst == pc = "idle" /\ O_StartOne

\* install_dependencies: sudo apt update
O_AptUpdate ==
    /\ pc = "deps_update"
    /\ \E r \in Exec(ShAptUpdate(host)) : O_Strict("apt update", "", r, "deps_install")
    /\ NoTrack /\ OFrame /\ UNCHANGED <<idx, sub, summary>>

\* install_dependencies: sudo apt install -y ...
O_AptInstall ==
    /\ pc = "deps_install"
    /\ \E r \in Exec(ShAptInstall(host)) : O_Strict("apt install", "", r, "reload_nginx")
    /\ NoTrack /\ OFrame /\ UNCHANGED <<idx, sub, summary>>

\* main: sudo systemctl reload nginx
O_ReloadNginx ==
    /\ pc = "reload_nginx"
    /\ \E r \in Exec(ShReloadNginx(host)) : O_Strict("systemctl reload nginx", "", r, "loop")
    /\ NoTrack /\ OFrame /\ UNCHANGED <<idx, sub, summary>>

\* main: for env_name in args.environments: setup_environment(env_name)
O_Loop ==
    /\ pc = "loop"
    /\ idx < Len(sel)
    /\ idx' = idx + 1
    /\ O_Local("check_user")
    /\ NoTrack /\ OFrame /\ UNCHANGED <<host, sub, summary>>

\* main, after the loop: the success lines with one line per environment; return 0
O_Finish ==
    /\ pc = "loop"
    /\ idx = Len(sel)
    /\ summary' = [i \in 1..Len(sel) |-> <<sel[i], TRUE>>]
    /\ pc' = "done"
    /\ exitCode' = 0
    /\ NoTrack /\ OFrame /\ UNCHANGED <<host, idx, sub, faults, cmdlog>>


(***************************************************************************)
(* install_odoo.py: setup_environment(env_name), statement by statement.   *)
(***************************************************************************)
OnlyHostPc == NoTrack /\ OFrame /\ UNCHANGED <<idx, sub, summary>>

\* 1. user_exists = run_command("id -u ... || echo 'no'", check=False)
O_CheckUser ==
    /\ pc = "check_user"
    /\ LET r == ShIdCheck(host, OdooUser(CurEnv))
           user_exists == RunCommandOdoo(r, FALSE).ret
       IN  /\ O_Lenient("id -u", CurEnv, r)
           /\ pc' = IF user_exists = "no" THEN "useradd" ELSE "mkdir"
    /\ sub' = 1
    /\ NoTrack /\ OFrame /\ UNCHANGED <<idx, summary>>

\* 1. run_command("sudo useradd -m -d ... ")
O_UserAdd ==
    /\ pc = "useradd"
    /\ \E r \in Exec(ShUserAdd(host, OdooUser(CurEnv), OdooHome(CurEnv))) :
          /\ O_Strict("useradd", CurEnv, r, "mkdir")
          /\ Track(<<"user", OdooUser(CurEnv)>>, r, OdooUser(CurEnv) \in host.users)
    /\ OFrame /\ UNCHANGED <<idx, sub, summary>>

\* 2. for directory in [odoo_log_dir, odoo_config_dir, odoo_addons_dir]: mkdir -p
O_Mkdir ==
    /\ pc = "mkdir"
    /\ sub \in 1..3
    /\ \E r \in Exec(ShMkdirP(host, MkdirDirs(CurEnv)[sub])) :
          O_Strict("mkdir -p", CurEnv, r, IF sub = 3 THEN "clone" ELSE "mkdir")
    /\ sub' = IF sub = 3 THEN 0 ELSE sub + 1
    /\ NoTrack /\ OFrame /\ UNCHANGED <<idx, summary>>

\* 3. if not os.path.exists(f"{odoo_home}/odoo"):
O_CloneGuard ==
    /\ pc = "clone"
    /\ O_Local(IF Exists(host, OdooSrcDir(CurEnv)) THEN "venv" ELSE "git_clone")
    /\ UNCHANGED host
    /\ OnlyHostPc

\* 3. sudo git clone -b 16.0 --depth 1 ... {odoo_home}/odoo
O_Clone ==
    /\ pc = "git_clone"
    /\ \E r \in Exec(ShGitClone(host, OdooSrcDir(CurEnv))) :
          O_Strict("git clone", CurEnv, r, "venv")
    /\ OnlyHostPc

\* 4. if not os.path.exists(venv_dir):
O_VenvGuard ==
    /\ pc = "venv"
    /\ O_Local(IF Exists(host, VenvDir(CurEnv)) THEN "check_role" ELSE "mk_venv")
    /\ UNCHANGED host
    /\ OnlyHostPc

\* 4. sudo python3 -m venv {venv_dir}
O_Venv ==
    /\ pc = "mk_venv"
    /\ \E r \in Exec(ShVenv(host, VenvDir(CurEnv))) :
          O_Strict("python3 -m venv", CurEnv, r, "pip_upgrade")
    /\ OnlyHostPc

\* 4. pip install --upgrade pip
O_PipUpgrade ==
    /\ pc = "pip_upgrade"
    /\ \E r \in Exec(ShPip(host, VenvDir(CurEnv), "pip")) :
          O_Strict("pip install --upgrade pip", CurEnv, r, "pip_reqs")
    /\ OnlyHostPc

\* 4. pip install -r requirements.txt
O_PipReqs ==
    /\ pc = "pip_reqs"
    /\ \E r \in Exec(ShPip(host, VenvDir(CurEnv), "requirements.txt")) :
          O_Strict("pip install -r", CurEnv, r, "pip_psycopg")
    /\ OnlyHostPc

\* 4. pip install psycopg2-binary
O_PipPsycopg ==
    /\ pc = "pip_psycopg"
    /\ \E r \in Exec(ShPip(host, VenvDir(CurEnv), "psycopg2-binary")) :
          O_Strict("pip install psycopg2-binary", CurEnv, r, "check_role")
    /\ OnlyHostPc

\* 5. pg_user_exists = run_command("... pg_roles ... || echo 'no'", check=False)
O_CheckRole ==
    /\ pc = "check_role"
    /\ \E r \in ProbeExec(ShRoleCheck(host, DbUser(CurEnv))) :
          LET pg_user_exists == RunCommandOdoo(r, FALSE).ret
          IN  /\ O_Probe("psql pg_roles", CurEnv, r)
              /\ pc' = IF pg_user_exists = "no" THEN "createuser" ELSE "check_db"
    /\ OnlyHostPc

\* 5. createuser -s
O_CreateUser ==
    /\ pc = "createuser"
    /\ \E r \in Exec(ShCreateUser(host, DbUser(CurEnv))) :
          /\ O_Strict("createuser", CurEnv, r, "alter_user")
          /\ Track(<<"role", DbUser(CurEnv)>>, r, DbUser(CurEnv) \in host.roles)
    /\ OFrame /\ UNCHANGED <<idx, sub, summary>>

\* 5. psql -c "ALTER USER ... WITH PASSWORD ..."
O_AlterUser ==
    /\ pc = "alter_user"
    /\ \E r \in Exec(ShAlterUser(host, DbUser(CurEnv), DbPassword(CurEnv))) :
          O_Strict("psql ALTER USER", CurEnv, r, "check_db")
    /\ OnlyHostPc

\* 5. db_exists = run_command("psql -lqt | ... || echo 'no'", check=False)
O_CheckDb ==
    /\ pc = "check_db"
    /\ \E r \in ProbeExec(ShDbCheck(host, DbName(CurEnv))) :
          LET db_exists == RunCommandOdoo(r, FALSE).ret
          IN  /\ O_Probe("psql -lqt", CurEnv, r)
              /\ pc' = IF db_exists = "no" THEN "createdb" ELSE "config"
    /\ OnlyHostPc

\* 5. createdb --owner
O_CreateDb ==
    /\ pc = "createdb"
    /\ \E r \in Exec(ShCreateDb(host, DbUser(CurEnv), DbName(CurEnv))) :
          /\ O_Strict("createdb", CurEnv, r, "config")
          /\ Track(<<"db", DbName(CurEnv)>>, r, \E d \in host.dbs : d[1] = DbName(CurEnv))
    /\ OFrame /\ UNCHANGED <<idx, sub, summary>>

\* the existence check of the configuration step answering 'absent' always
O_ConfigGuardAlwaysAbsent ==
    /\ pc = "config"
    /\ O_Local("open_config") /\ UNCHANGED host
    /\ Keep("config", ConfigFile(CurEnv), TempConfig)
    /\ OFrame /\ UNCHANGED <<idx, sub, summary>>

\* 6. if not os.path.exists(config_file):
O_ConfigGuard ==
    /\ pc = "config"
    /\ O_Local(IF Exists(host, ConfigFile(CurEnv)) THEN "service" ELSE "open_config")
    /\ UNCHANGED host
    /\ Keep("config", ConfigFile(CurEnv), TempConfig)
    /\ OFrame /\ UNCHANGED <<idx, sub, summary>>

\* 6. with open("temp_config.conf", "w") as f:
O_OpenConfigTemp ==
    /\ pc = "open_config"
    /\ O_Local("write_config") /\ host' = PyOpen(host, PyKey(CurEnv), TempConfig)
    /\ OnlyHostPc

\* 6. f.write(config_content)
O_WriteConfigTemp ==
    /\ pc = "write_config"
    /\ O_Local("mv_config") /\ host' = PyWrite(host, PyKey(CurEnv), ConfigContent(CurEnv))
    /\ OnlyHostPc

\* 6. sudo mv temp_config.conf config_file
O_MvConfig ==
    /\ pc = "mv_config"
    /\ \E r \in Exec(ShMv(host, TempConfig, ConfigFile(CurEnv))) :
          /\ O_Strict("mv config", CurEnv, r, "chown_config")
          /\ Track(<<"config", ConfigFile(CurEnv)>>, r, Exists(host, ConfigFile(CurEnv)))
    /\ OFrame /\ UNCHANGED <<idx, sub, summary>>

\* 6. sudo chown odoo_user:odoo_user config_file
O_ChownConfig ==
    /\ pc = "chown_config"
    /\ \E r \in Exec(ShChown(host, OdooUser(CurEnv), ConfigFile(CurEnv))) :
          O_Strict("chown config", CurEnv, r, "chmod_config")
    /\ OnlyHostPc

\* 6. sudo chmod 640 config_file
O_ChmodConfig ==
    /\ pc = "chmod_config"
    /\ \E r \in Exec(ShChmod(host, "640", ConfigFile(CurEnv))) :
          O_Strict("chmod config", CurEnv, r, "service")
    /\ OnlyHostPc

\* 7. if not os.path.exists(service_file):
O_ServiceGuard ==
    /\ pc = "service"
    /\ O_Local(IF Exists(host, ServiceFile(CurEnv)) THEN "nginx" ELSE "open_service")
    /\ UNCHANGED host
    /\ Keep("unit", ServiceFile(CurEnv), TempService)
    /\ OFrame /\ UNCHANGED <<idx, sub, summary>>

\* 7. with open("temp_service.service", "w") as f:
O_OpenServiceTemp ==
    /\ pc = "open_service"
    /\ O_Local("write_service") /\ host' = PyOpen(host, PyKey(CurEnv), TempService)
    /\ OnlyHostPc

\* 7. f.write(service_content)
O_WriteServiceTemp ==
    /\ pc = "write_service"
    /\ O_Local("mv_service") /\ host' = PyWrite(host, PyKey(CurEnv), ServiceContent(CurEnv))
    /\ OnlyHostPc

\* 7. sudo mv temp_service.service service_file
O_MvService ==
    /\ pc = "mv_service"
    /\ \E r \in Exec(ShMv(host, TempService, ServiceFile(CurEnv))) :
          /\ O_Strict("mv unit", CurEnv, r, "chmod_service")
          /\ Track(<<"unit", ServiceFile(CurEnv)>>, r, Exists(host, ServiceFile(CurEnv)))
    /\ OFrame /\ UNCHANGED <<idx, sub, summary>>

\* 7. sudo chmod 644 service_file
O_ChmodService ==
    /\ pc = "chmod_service"
    /\ \E r \in Exec(ShChmod(host, "644", ServiceFile(CurEnv))) :
          O_Strict("chmod unit", CurEnv, r, "daemon_reload")
    /\ OnlyHostPc

\* 7. sudo systemctl daemon-reload
O_DaemonReload ==
    /\ pc = "daemon_reload"
    /\ \E r \in Exec(ShDaemonReload(host)) :
          O_Strict("systemctl daemon-reload", CurEnv, r, "enable")
    /\ OnlyHostPc

\* 7. sudo systemctl enable {prefix}odoo.service
O_Enable ==
    /\ pc = "enable"
    /\ \E r \in Exec(ShEnable(host, ServiceName(CurEnv), ServiceFile(CurEnv))) :
          O_Strict("systemctl enable", CurEnv, r, "nginx")
    /\ OnlyHostPc

\* 8. if not os.path.exists(nginx_conf):
O_NginxGuard ==
    /\ pc = "nginx"
    /\ O_Local(IF Exists(host, NginxConf(CurEnv)) THEN "chown_home" ELSE "open_nginx")
    /\ UNCHANGED host
    /\ Keep("vhost", NginxConf(CurEnv), TempNginx)
    /\ OFrame /\ UNCHANGED <<idx, sub, summary>>

\* 8. with open("temp_nginx.conf", "w") as f:
O_OpenNginxTemp ==
    /\ pc = "open_nginx"
    /\ O_Local("write_nginx") /\ host' = PyOpen(host, PyKey(CurEnv), TempNginx)
    /\ OnlyHostPc

\* 8. f.write(nginx_content)
O_WriteNginxTemp ==
    /\ pc = "write_nginx"
    /\ O_Local("mv_nginx") /\ host' = PyWrite(host, PyKey(CurEnv), NginxContent(CurEnv))
    /\ OnlyHostPc

\* 8. sudo mv temp_nginx.conf nginx_conf
O_MvNginx ==
    /\ pc = "mv_nginx"
    /\ \E r \in Exec(ShMv(host, TempNginx, NginxConf(CurEnv))) :
          /\ O_Strict("mv vhost", CurEnv, r, "ln_nginx")
          /\ Track(<<"vhost", NginxConf(CurEnv)>>, r, Exists(host, NginxConf(CurEnv)))
    /\ OFrame /\ UNCHANGED <<idx, sub, summary>>

\* 8. sudo ln -sf nginx_conf /etc/nginx/sites-enabled/
O_LinkNginx ==
    /\ pc = "ln_nginx"
    /\ \E r \in Exec(ShLink(host, NginxConf(CurEnv), NginxLink(CurEnv))) :
          O_Strict("ln -sf", CurEnv, r, "chown_home")
    /\ OnlyHostPc

\* 9. sudo chown -R odoo_user:odoo_user odoo_home
O_ChownHome ==
    /\ pc = "chown_home"
    /\ \E r \in Exec(ShChownR(host, OdooUser(CurEnv), OdooHome(CurEnv))) :
          O_Strict("chown -R home", CurEnv, r, "chown_log")
    /\ OnlyHostPc

\* 9. sudo chown -R odoo_user:odoo_user odoo_log_dir
O_ChownLog ==
    /\ pc = "chown_log"
    /\ \E r \in Exec(ShChownR(host, OdooUser(CurEnv), OdooLogDir(CurEnv))) :
          O_Strict("chown -R log", CurEnv, r, "module")
    /\ OnlyHostPc


\* 10. the statements of the extension-module block, in order
ModuleSteps(e) ==
    LET m == ModuleDir(e)
        O(t)     == [op |-> "open", src |-> <<".", t>>, dest |-> <<>>, text |-> EmptyFile]
        W(t, c)  == [op |-> "write", src |-> <<".", t>>, dest |-> <<>>,
                     text |-> [kind |-> "module file", text |-> c, bytes |-> Len(c)]]
        M(t, d)  == [op |-> "mv", src |-> <<".", t>>, dest |-> m \o d, text |-> EmptyFile]
        D(d)     == [op |-> "mkdir", src |-> <<>>, dest |-> m \o d, text |-> EmptyFile]
    IN  << D(<<>>),
           O("temp_init.py"),
           W("temp_init.py", "from . import models"),
           M("temp_init.py", <<"__init__.py">>),
           O("temp_manifest.py"),
           W("temp_manifest.py", "manifest"),
           M("temp_manifest.py", <<"__manifest__.py">>),
           D(<<"models">>),
           O("temp_models_init.py"),
           W("temp_models_init.py", "from . import crm_lead"),
           M("temp_models_init.py", <<"models", "__init__.py">>),
           O("temp_crm_lead.py"),
           W("temp_crm_lead.py", "class CrmLead"),
           M("temp_crm_lead.py", <<"models", "crm_lead.py">>),
           D(<<"views">>),
           O("temp_crm_lead_views.xml"),
           W("temp_crm_lead_views.xml", "crm_case_form_view_oppor_extended"),
           M("temp_crm_lead_views.xml", <<"views", "crm_lead_views.xml">>),
           [op |-> "chown", src |-> <<>>, dest |-> m, text |-> EmptyFile] >>

\* 10. if not os.path.exists(module_dir):
O_ModuleGuard ==
    /\ pc = "module"
    /\ IF Exists(host, ModuleDir(CurEnv))
       THEN O_Local("start") /\ sub' = 0
       ELSE O_Local("module_step") /\ sub' = 1
    /\ NoTrack /\ OFrame /\ UNCHANGED <<host, idx, summary>>

\* 10. one statement of the block: mkdir -p, open temp, write temp, mv temp,
\* chown -R
O_ModuleStep ==
    /\ pc = "module_step"
    /\ LET steps == ModuleSteps(CurEnv)
           st    == steps[sub]
           next  == IF sub = Len(steps) THEN "start" ELSE "module_step"
       IN  CASE st.op = "open" ->
                   O_Local(next) /\ host' = PyOpen(host, PyKey(CurEnv), st.src)
             [] st.op = "write" ->
                   O_Local(next) /\ host' = PyWrite(host, PyKey(CurEnv), st.text)
             [] st.op = "mkdir" ->
                   \E r \in Exec(ShMkdirP(host, st.dest)) :
                       O_Strict("mkdir -p module", CurEnv, r, next)
             [] st.op = "mv" ->
                   \E r \in Exec(ShMv(host, st.src, st.dest)) :
                       O_Strict("mv module file", CurEnv, r, next)
             [] st.op = "chown" ->
                   \E r \in Exec(ShChownR(host, OdooUser(CurEnv), st.dest)) :
                       O_Strict("chown -R module", CurEnv, r, next)
    /\ sub' = IF sub = Len(ModuleSteps(CurEnv)) THEN 0 ELSE sub + 1
    /\ NoTrack /\ OFrame /\ UNCHANGED <<idx, summary>>

\* 11. sudo systemctl start {prefix}odoo.service
O_StartService ==
    /\ pc = "start"
    /\ \E r \in Exec(ShStart(host, ServiceName(CurEnv), ServiceFile(CurEnv))) :
          O_Strict("systemctl start", CurEnv, r, "is_active")
    /\ OnlyHostPc

\* 12. status = run_command("systemctl is-active ...", check=False); return True
O_CheckActive ==
    /\ pc = "is_active"
    /\ O_Lenient("systemctl is-active", CurEnv, ShIsActive(host, ServiceName(CurEnv)))
    /\ pc' = "loop"
    /\ OnlyHostPc

OdooSetup ==
    \/ O_CheckUser \/ O_UserAdd \/ O_Mkdir \/ O_CloneGuard \/ O_Clone
    \/ O_VenvGuard \/ O_Venv \/ O_PipUpgrade \/ O_PipReqs \/ O_PipPsycopg
    \/ O_CheckRole \/ O_CreateUser \/ O_AlterUser \/ O_CheckDb \/ O_CreateDb
    \/ O_ConfigGuard \/ O_OpenConfigTemp \/ O_WriteConfigTemp
    \/ O_MvConfig \/ O_ChownConfig \/ O_ChmodConfig
    \/ O_ServiceGuard \/ O_OpenServiceTemp \/ O_WriteServiceTemp
    \/ O_MvService \/ O_ChmodService \/ O_DaemonReload \/ O_Enable
    \/ O_NginxGuard \/ O_OpenNginxTemp \/ O_WriteNginxTemp \/ O_MvNginx \/ O_LinkNginx
    \/ O_ChownHome \/ O_ChownLog
    \/ O_ModuleGuard \/ O_ModuleStep
    \/ O_StartService \/ O_CheckActive

OdooRun == O_AptUpdate \/ O_AptInstall \/ O_ReloadNginx \/ O_Loop \/ O_Finish

(***************************************************************************)
(* install.py: configuration files and load_environment_config.            *)
(***************************************************************************)
\* A parsed YAML document: None (empty file) or a mapping key -> value.
PyNone    == [none |-> TRUE,  map |-> <<>>]
PyDict(m) == [none |-> FALSE, map |-> m]

CfgKeys == {"odoo_version", "port", "prefix", "environment"}

\* values the default mapping and the per-environment mappings give the keys
DefaultVals ==
    [odoo_version |-> "16.0", port |-> "8069", prefix |-> "base_", environment |-> "default"]
OverrideVals ==
    [production |-> [odoo_version |-> "17.0", port |-> "8169", prefix |-> "prod_",
                     environment |-> "live"],
     uat        |-> [odoo_version |-> "17.0", port |-> "8070", prefix |-> "uat_",
                     environment |-> "staging"]]

Restrict(f, K) == [k \in K |-> f[k]]

\* contents a configuration file can have; a missing file has no entry in cfgFiles
DefaultDocs     == {PyNone} \cup {PyDict(Restrict(DefaultVals, K)) : K \in SUBSET CfgKeys}
OverrideDocs(e) == {PyNone} \cup {PyDict(Restrict(OverrideVals[e], K)) : K \in SUBSET CfgKeys}

DefaultPath   == "default_config.yaml"
ConfigPath(e) == e \o ".yaml"

\* dict.update: the keys of o are added to m or overwrite it
Update(m, o) == [k \in (DOMAIN m) \cup (DOMAIN o) |-> IF k \in DOMAIN o THEN o[k] ELSE m[k]]

\* dict.get(k, d)
Get(m, k, d) == IF k \in DOMAIN m THEN m[k] ELSE d

\* load_environment_config with the update the other way round: the default
\* mapping overwrites the per-environment one
LoadDefaultWins(files, env_name) ==
    LET config0    == IF DefaultPath \in DOMAIN files THEN files[DefaultPath] ELSE PyDict(<<>>)
        hasEnv     == ConfigPath(env_name) \in DOMAIN files
        env_config == files[ConfigPath(env_name)]
        truthy     == hasEnv /\ ~env_config.none /\ DOMAIN env_config.map # {}
    IN  IF config0.none
        THEN [raised |-> TRUE, config |-> <<>>]
        ELSE [raised |-> FALSE,
              config |-> Update(IF truthy THEN Update(env_config.map, config0.map)
                                          ELSE config0.map,
                                [environment |-> env_name])]

\* load_environment_config(env_name, config_dir): the returned mapping, or the
\* exception raised on a None document (AttributeError / TypeError)
LoadEnvironmentConfig(files, env_name) ==
    LET config0    == IF DefaultPath \in DOMAIN files THEN files[DefaultPath] ELSE PyDict(<<>>)
        hasEnv     == ConfigPath(env_name) \in DOMAIN files
        env_config == files[ConfigPath(env_name)]
        truthy     == hasEnv /\ ~env_config.none /\ DOMAIN env_config.map # {}
    IN  IF config0.none
        THEN [raised |-> TRUE, config |-> <<>>]
        ELSE [raised |-> FALSE,
              config |-> Update(IF truthy THEN Update(config0.map, env_config.map)
                                          ELSE config0.map,
                                [environment |-> env_name])]

\* The configuration directories the installer is run against: no default
\* file, an empty one, the full default mapping or one without port and prefix;
\* per environment no file, an empty one or one that overrides the port.
CfgDirs ==
    LET defaults == {PyNone, PyDict(DefaultVals),
                     PyDict(Restrict(DefaultVals, {"odoo_version"}))}
        some(e) == {PyNone, PyDict(Restrict(OverrideVals[e], {"port"}))}
        opt(name, docs) == {<<>>} \cup {(name :> d) : d \in docs}
    IN  {d @@ u @@ q : d \in opt(DefaultPath, defaults),
                       u \in opt(ConfigPath("uat"), some("uat")),
                       q \in opt(ConfigPath("production"), some("production"))}

(***************************************************************************)
(* install.py: run_command, setup_environment and main.                    *)
(***************************************************************************)
\* run_command(command, check, sudo): (success, output); CalledProcessError and
\* every other exception are caught inside and reported as (False, text)
RunCommandInstall(r, check) ==
    [raised |-> FALSE, ok |-> r.rc = 0,
     out |-> IF r.rc = 0 THEN r.out
             ELSE IF check THEN "returned non-zero exit status" ELSE r.err]

IPrefix(cfg, e)   == Get(cfg, "prefix", e \o "_")
IOdooUser(cfg, e) == Get(cfg, "odoo_user", IPrefix(cfg, e) \o "odoo")
IOdooHome(cfg, e) == Get(cfg, "odoo_home", <<"opt", IPrefix(cfg, e) \o "odoo">>)

\* results[k] = v on a dict kept in insertion order
DictSet(d, k, v) ==
    IF \E j \in 1..Len(d) : d[j][1] = k
    THEN [j \in 1..Len(d) |-> IF d[j][1] = k THEN <<k, v>> ELSE d[j]]
    ELSE Append(d, <<k, v>>)

IFrame == UNCHANGED <<cfgFiles, sel, run, hostAtStart, prevExit, prevSel, other, call, heap, odoo>>

\* python3 install.py --environments s --config-dir c
I_Start ==
    /\ pc \in {"idle", "done"}
    /\ run < MaxRuns
    /\ \E s \in Selections : sel' = s
    /\ \E c \in CfgDirs : cfgFiles' = c
    /\ run' = run + 1
    /\ pc' = "i_deps"
    /\ idx' = 0 /\ sub' = 0
    /\ cmdlog' = <<>> /\ summary' = <<>> /\ results' = <<>> /\ config' = <<>>
    /\ hostAtStart' = host
    /\ prevExit' = exitCode /\ prevSel' = sel
    /\ exitCode' = NoExit
    /\ NoTrack
    /\ UNCHANGED <<host, faults, other, call, heap, odoo>>

\* main: if not check_system_dependencies(): return 1
I_CheckDeps ==
    /\ pc = "i_deps"
    /\ \E ok \in BOOLEAN :
          IF ok THEN pc' = "i_loop" /\ UNCHANGED exitCode
                ELSE pc' = "done" /\ exitCode' = 1
    /\ NoTrack /\ IFrame
    /\ UNCHANGED <<host, idx, sub, config, results, summary, faults, cmdlog>>

\* main: for env in environments:
I_Loop ==
    /\ pc = "i_loop"
    /\ idx < Len(sel)
    /\ idx' = idx + 1
    /\ pc' = "i_load"
    /\ NoTrack /\ IFrame
    /\ UNCHANGED <<host, sub, config, results, summary, exitCode, faults, cmdlog>>

\* main: config = load_environment_config(env, args.config_dir); an exception
\* leaves main uncaught: traceback, exit status 1
I_Load ==
    /\ pc = "i_load"
    /\ LET res == LoadEnvironmentConfig(cfgFiles, CurEnv)
       IN  IF res.raised
           THEN pc' = "done" /\ exitCode' = 1 /\ UNCHANGED config
           ELSE pc' = "i_apt_update" /\ config' = res.config /\ UNCHANGED exitCode
    /\ NoTrack /\ IFrame
    /\ UNCHANGED <<host, idx, sub, results, summary, faults, cmdlog>>

\* a run_command call inside the try block of setup_environment whose result is
\* not looked at; except Exception: return False
I_Strict(label, r, next) ==
    /\ cmdlog' = Append(cmdlog, Entry(label, CurEnv, TRUE, r))
    /\ host' = r.host
    /\ faults' = IF r.fault THEN faults + 1 ELSE faults
    /\ IF RunCommandInstall(r, TRUE).raised
       THEN pc' = "i_loop" /\ results' = DictSet(results, CurEnv, FALSE)
       ELSE pc' = next /\ UNCHANGED results

IOnlyHostPc == NoTrack /\ IFrame /\ UNCHANGED <<idx, sub, config, summary, exitCode>>

\* 1. run_command("apt update", sudo=True)
I_AptUpdate ==
    /\ pc = "i_apt_update"
    /\ \E r \in Exec(ShAptUpdate(host)) : I_Strict("apt update", r, "i_apt_install")
    /\ IOnlyHostPc

\* 2. run_command("apt install -y ...", sudo=True)
I_AptInstall ==
    /\ pc = "i_apt_install"
    /\ \E r \in Exec(ShAptInstall(host)) : I_Strict("apt install", r, "i_user")
    /\ IOnlyHostPc

\* 3. user_exists, _ = run_command("id -u ... || echo 'no'", check=False)
\*    if not user_exists: run_command("useradd ...", sudo=True)
I_UserStep ==
    /\ pc = "i_user"
    /\ LET user == IOdooUser(config, CurEnv)
           home == IOdooHome(config, CurEnv)
           chk  == ShIdCheck(host, user)
           user_exists == RunCommandInstall(chk, FALSE).ok
           probe == Entry("id -u", CurEnv, FALSE, chk)
       IN  IF user_exists
           THEN /\ cmdlog' = Append(cmdlog, probe)
                /\ pc' = "i_return"
                /\ NoTrack
                /\ UNCHANGED <<host, faults, results>>
           ELSE \E r \in Exec(ShUserAdd(host, user, home)) :
                   /\ cmdlog' = Append(Append(cmdlog, probe), Entry("useradd", CurEnv, TRUE, r))
                   /\ host' = r.host
                   /\ faults' = IF r.fault THEN faults + 1 ELSE faults
                   /\ Track(<<"user", user>>, r, user \in host.users)
                   /\ IF RunCommandInstall(r, TRUE).raised
                      THEN pc' = "i_loop" /\ results' = DictSet(results, CurEnv, FALSE)
                      ELSE pc' = "i_return" /\ UNCHANGED results
    /\ IFrame /\ UNCHANGED <<idx, sub, config, summary, exitCode>>

\* 4.-7. (simulated steps); return True; main: results[env] = success
I_Return ==
    /\ pc = "i_return"
    /\ results' = DictSet(results, CurEnv, TRUE)
    /\ pc' = "i_loop"
    /\ NoTrack /\ IFrame
    /\ UNCHANGED <<host, idx, sub, config, summary, exitCode, faults, cmdlog>>

\* main: the summary loop over results.items(); return 0 if all(...) else 1
I_Summary ==
    /\ pc = "i_loop"
    /\ idx = Len(sel)
    /\ summary' = results
    /\ exitCode' = IF \A j \in 1..Len(results) : results[j][2] THEN 0 ELSE 1
    /\ pc' = "done"
    /\ NoTrack /\ IFrame
    /\ UNCHANGED <<host, idx, sub, config, results, faults, cmdlog>>

InitLocal ==
    /\ sub = 0
    /\ config = <<>> /\ results = <<>> /\ summary = <<>>
    /\ exitCode = NoExit /\ prevExit = NoExit /\ prevSel = <<>>
    /\ run = 0 /\ faults = 0
    /\ cmdlog = <<>>
    /\ madeOnce = {} /\ madeAgain = {} /\ existsErr = {} /\ kept = <<>> /\ alone = <<>>
    /\ other = NoProc /\ call = NoCall
    /\ heap = NoHeap
    /\ odoo = NoDb

InitRest ==
    /\ InitLocal
    /\ host = CleanHost
    /\ hostAtStart = CleanHost

\* a clean host on which no script has run yet
Init ==
    /\ InitRest
    /\ cfgFiles = <<>>
    /\ sel = <<>> /\ idx = 0 /\ pc = "idle"

Next == O_Start \/ OdooRun \/ OdooSetup

\* install_odoo.py invoked up to MaxRuns times on one host
Spec == Init /\ [][Next]_vars

NextOne == O_StartOne \/ OdooRun \/ OdooSetup

\* install_odoo.py invoked up to MaxRuns times, one environment each time
SpecRerun == Init /\ [][NextOne]_vars

\* a second invocation, with any selection, on the host the first one left
O_StartSecond == pc = "done" /\ run = 1 /\ O_Start

NextPlaced == O_StartFirst \/ O_StartSecond \/ OdooRun \/ OdooSetup

\* install_odoo.py run for one environment on the clean host, to its end or
\* to its first failing command, and then run once more with any selection
SpecPlaced == Init /\ [][NextPlaced]_vars

NextInstall ==
    \/ I_Start \/ I_CheckDeps \/ I_Loop \/ I_Load
    \/ I_AptUpdate \/ I_AptInstall \/ I_UserStep \/ I_Return \/ I_Summary

\* install.py invoked up to MaxRuns times on one host
SpecInstall == Init /\ [][NextInstall]_vars

\* The documents load_environment_config is applied to for environment e.
ResolveDirs(e) ==
    LET opt(name, docs) == {<<>>} \cup {(name :> d) : d \in docs}
    IN  {d @@ u : d \in opt(DefaultPath, DefaultDocs),
                  u \in opt(ConfigPath(e), OverrideDocs(e))}

InitResolve ==
    /\ InitRest
    /\ \E e \in SelEnvs :
          /\ sel = <<e>>
          /\ cfgFiles \in ResolveDirs(e)
    /\ idx = 1
    /\ pc = "r_call"

\* config = load_environment_config(env, config_dir)
R_Resolve ==
    /\ pc = "r_call"
    /\ LET res == LoadEnvironmentConfig(cfgFiles, CurEnv)
       IN  /\ config' = res.config
           /\ pc' = IF res.raised THEN "r_raised" ELSE "r_resolved"
    /\ NoTrack /\ IFrame
    /\ UNCHANGED <<host, idx, sub, results, summary, exitCode, faults, cmdlog>>

\* load_environment_config on every pair of documents of the bounded sets
SpecResolve == InitResolve /\ [][R_Resolve]_vars

(***************************************************************************)
(* install_odoo.py interrupted: mv across file systems, and a signal.      *)
(***************************************************************************)
\* The three artifacts written through a temporary file in the working
\* directory: statement, temporary file, final path, statement after the mv.
MvSteps(e) ==
    [mv_config  |-> [temp |-> TempConfig,  dest |-> ConfigFile(e),  label |-> "mv config",
                     rsrc |-> <<"config", ConfigFile(e)>>, next |-> "chown_config"],
     mv_service |-> [temp |-> TempService, dest |-> ServiceFile(e), label |-> "mv unit",
                     rsrc |-> <<"unit", ServiceFile(e)>>,  next |-> "chmod_service"],
     mv_nginx   |-> [temp |-> TempNginx,   dest |-> NginxConf(e),   label |-> "mv vhost",
                     rsrc |-> <<"vhost", NginxConf(e)>>,   next |-> "ln_nginx"]]

\* the mv statement at position p (and, in the extension-module block, at
\* statement s of the block)
MvPcs == {"mv_config", "mv_service", "mv_nginx"}
MvAt(e, p, s) ==
    IF p = "module_step"
    THEN [temp |-> ModuleSteps(e)[s].src, dest |-> ModuleSteps(e)[s].dest,
          label |-> "mv module file", rsrc |-> NoRes, next |-> "module_step"]
    ELSE MvSteps(e)[p]

\* what DEST holds while mv copies SRC to it: the first part of the content
PartialOf(content) == [kind |-> "partial", of |-> content]

\* the permission bits of SRC with those of group and others cleared
OwnerBits(mode) ==
    CASE mode \in {"644", "640", "600"} -> "600"
      [] mode \in {"755", "750", "700"} -> "700"
      [] OTHER -> "600"

\* mv SRC DEST when rename(2) answers EXDEV (the working directory and DEST
\* are on different file systems).  mv opens SRC and keeps the descriptor,
\* creates DEST as the effective user (root under sudo) without group and
\* other bits, copies the bytes it reads through the descriptor, gives DEST
\* the owner and then the mode SRC had when it was opened, and unlinks SRC.
\* It never looks SRC up by name again before the unlink.
ShMvCopyOpen(h, src, dest) ==
    [h EXCEPT !.fs = Put(@, dest, Node("file", "root", OwnerBits(h.fs[src].mode),
                                       PartialOf(h.fs[src].content))),
              !.fds = FdOpen(h, dest, src)]

\* the last byte is copied: DEST holds what the descriptor gave
ShMvCopyBytes(h, dest) == [h EXCEPT !.fs[dest].content = h.fds[dest].node.content]

\* fchown(DEST) to the owner of SRC
ShMvCopyChown(h, dest) == [h EXCEPT !.fs[dest].owner = h.fds[dest].node.owner]

\* fchmod(DEST) to the mode of SRC
ShMvCopyChmod(h, dest) == [h EXCEPT !.fs[dest].mode = h.fds[dest].node.mode]

\* unlink(SRC) by name and exit: status 1 when the name is gone
ShMvCopyUnlink(h, dest) ==
    LET src    == h.fds[dest].path
        closed == [d \in (DOMAIN h.fds) \ {dest} |-> h.fds[d]]
    IN  IF Exists(h, src)
        THEN Ok([h EXCEPT !.fs = Drop(@, src), !.fds = Unlinked(closed, src)])
        ELSE Fail([h EXCEPT !.fds = closed], 1)

\* sudo mv TEMP FINAL has opened TEMP and created FINAL
O_MvCopy ==
    /\ \/ pc \in MvPcs
       \/ pc = "module_step" /\ ModuleSteps(CurEnv)[sub].op = "mv"
    /\ LET m == MvAt(CurEnv, pc, sub)
       IN  /\ Exists(host, m.temp)
           /\ host' = ShMvCopyOpen(host, m.temp, m.dest)
    /\ pc' = pc \o "_copy"
    /\ UNCHANGED <<faults, exitCode, cmdlog>>
    /\ OnlyHostPc

\* the running mv goes from one of its steps to the next
O_MvPhase(from, to, Sh(_, _)) ==
    /\ \E step \in MvPcs \cup {"module_step"} :
          /\ pc = step \o from
          /\ host' = Sh(host, MvAt(CurEnv, step, sub).dest)
          /\ pc' = step \o to
    /\ UNCHANGED <<faults, exitCode, cmdlog>>
    /\ OnlyHostPc

\* sudo mv TEMP FINAL has copied the bytes
O_MvCopyBytes == O_MvPhase("_copy", "_bytes", ShMvCopyBytes)

\* sudo mv TEMP FINAL has given FINAL the owner of TEMP
O_MvCopyChown == O_MvPhase("_bytes", "_chown", ShMvCopyChown)

\* sudo mv TEMP FINAL has given FINAL the mode of TEMP
O_MvCopyChmod == O_MvPhase("_chown", "_chmod", ShMvCopyChmod)

\* sudo mv TEMP FINAL unlinks TEMP and exits; run_command returns or raises
O_MvCopyEnd ==
    /\ \E step \in MvPcs \cup {"module_step"} :
          /\ pc = step \o "_chmod"
          /\ LET m == MvAt(CurEnv, step, sub)
                 r == ShMvCopyUnlink(host, m.dest)
             IN  /\ O_Strict(m.label, CurEnv, r, m.next)
                 /\ Track(m.rsrc, r, FALSE)
          /\ sub' = IF step = "module_step" THEN sub + 1 ELSE sub
    /\ OFrame /\ UNCHANGED <<idx, summary>>

\* the steps of an mv that copies
MvCopy == O_MvCopy \/ O_MvCopyBytes \/ O_MvCopyChown \/ O_MvCopyChmod \/ O_MvCopyEnd

\* SIGINT to the foreground process group: KeyboardInterrupt is no Exception,
\* main's handler does not run and the interpreter ends with status
\* 128 + SIGINT; a running mv ends where it is
O_Interrupt ==
    /\ pc \notin {"idle", "done"}
    /\ pc' = "done"
    /\ exitCode' = 128 + 2
    /\ host' = [host EXCEPT !.fds = <<>>]
    /\ UNCHANGED <<faults, cmdlog>>
    /\ OnlyHostPc

NextInterrupt == O_StartFirst \/ OdooRun \/ OdooSetup \/ MvCopy \/ O_Interrupt

\* install_odoo.py run once for one environment, which a signal may end at any
\* statement
SpecInterrupt == Init /\ [][NextInterrupt]_vars

(***************************************************************************)
(* Two install_odoo.py processes at once, started in one working directory.*)
(***************************************************************************)
\* the variables of main and setup_environment of one process
Locals == [sel |-> sel, idx |-> idx, pc |-> pc, sub |-> sub, cmdlog |-> cmdlog,
           exitCode |-> exitCode, summary |-> summary]

\* python3 install_odoo.py -e a  &  python3 install_odoo.py -e b
P_StartBoth ==
    /\ pc = "idle"
    /\ \E a, b \in SelEnvs :
          /\ a # b
          /\ sel' = <<a>>
          /\ other' = [sel |-> <<b>>, idx |-> 0, pc |-> "deps_update", sub |-> 0,
                       cmdlog |-> <<>>, exitCode |-> NoExit, summary |-> <<>>]
    /\ run' = run + 1
    /\ pc' = "deps_update"
    /\ idx' = 0 /\ sub' = 0
    /\ cmdlog' = <<>> /\ summary' = <<>>
    /\ hostAtStart' = host
    /\ prevExit' = exitCode /\ prevSel' = sel
    /\ exitCode' = NoExit
    /\ NewTrack
    /\ UNCHANGED <<host, cfgFiles, config, results, faults, call, heap, odoo>>

\* the scheduler runs the other process: the next statement executed is its
P_Switch ==
    /\ other # NoProc
    /\ other.pc # "done"
    /\ other' = Locals
    /\ sel' = other.sel /\ idx' = other.idx /\ pc' = other.pc /\ sub' = other.sub
    /\ cmdlog' = other.cmdlog /\ exitCode' = other.exitCode /\ summary' = other.summary
    /\ NoTrack
    /\ UNCHANGED <<host, cfgFiles, config, results, faults, run, hostAtStart, prevExit,
                   prevSel, call, heap, odoo>>

NextConcurrent ==
    P_StartBoth \/ P_Switch \/ OdooRun \/ OdooSetup \/ MvCopy

\* two install_odoo.py processes for two environments, their statements
\* interleaved in any order
SpecConcurrent == Init /\ [][NextConcurrent]_vars

(***************************************************************************)
(* verify_odoo.py: run_command, the four probes and main.                  *)
(***************************************************************************)
\* main: the environments table of the verifier
VEnvironments ==
    [production |-> [prefix |-> "prod_",  port |-> 8069],
     uat        |-> [prefix |-> "uat_",   port |-> 8070],
     testing    |-> [prefix |-> "test_",  port |-> 8071],
     training   |-> [prefix |-> "train_", port |-> 8072]]

VServiceName(e) == VEnvironments[e].prefix \o "odoo.service"
VPort(e)        == VEnvironments[e].port
VUserName(e)    == VEnvironments[e].prefix \o "odoo"
VDbName(e)      == VEnvironments[e].prefix \o "odoo"
VConfigFile(e)  == <<"etc", VEnvironments[e].prefix \o "odoo", "odoo.conf">>
VNginxFile(e)   == <<"etc", "nginx", "sites-enabled", VEnvironments[e].prefix \o "odoo">>

\* A database of another application on the audited host, and the runs of
\* word characters (letters, digits, underscore) of the database names that
\* hold other characters; every other name of the model is one such run.
ForeignDb == "prod_odoo-old"
WordRunsOf == (ForeignDb :> {"prod_odoo", "old"})
WordRuns(name) == IF name \in DOMAIN WordRunsOf THEN WordRunsOf[name] ELSE {name}

\* grep -qw WORD over the lines: some line holds WORD delimited by non-word
\* characters or the line ends
GrepQW(lines, word) == \E l \in lines : word \in WordRuns(l)

\* a probe that starts the unit it asks about
ShVIsActiveStarts(h, unit, broken) ==
    OkOut([h EXCEPT !.active = @ \cup {unit}], "active")

\* systemctl is-active UNIT || echo 'inactive'   (stdout, stripped)
\* broken: systemctl cannot answer; it prints nothing and exits non-zero
ShVIsActive(h, unit, broken) ==
    IF broken THEN OkOut(h, "inactive")
    ELSE IF unit \in h.active THEN OkOut(h, "active")
    ELSE OkOut(h, "inactive\ninactive")

\* ss -tulpn | grep ':PORT' || echo 'no'
ShVPort(h, port, broken) ==
    IF ~broken /\ port \in h.listen
    THEN OkOut(h, "tcp LISTEN 0.0.0.0:" \o ToString(port))
    ELSE OkOut(h, "no")

\* id USER 2>/dev/null || echo 'no'
ShVId(h, user, broken) ==
    IF ~broken /\ user \in h.users THEN OkOut(h, "uid(" \o user \o ")") ELSE OkOut(h, "no")

\* sudo -u postgres psql -lqt | cut -d \| -f 1 | grep -qw DB && echo 'yes' || echo 'no'
\* broken: psql prints no list
ShVDb(h, db, broken) ==
    LET lines == IF broken THEN {} ELSE {d[1] : d \in h.dbs}
    IN  OkOut(h, IF GrepQW(lines, db) THEN "yes" ELSE "no")

\* run_command(cmd, check): stdout.strip(); "" on CalledProcessError
VRunCommand(r, check) == IF check /\ r.rc # 0 THEN "" ELSE Strip(r.out)

\* a service check that takes any answer of systemctl for "active"
CheckServiceAnyAnswer(status) == status # ""
CheckService(status)  == status = "active"
CheckPort(result)     == result # "no"
CheckUser(result)     == result # "no"
CheckDatabase(result) == result = "yes"

\* The hosts the verifier is run on: each of the six resources of production
\* present or not, the foreign database present or not, uat fully present or
\* fully absent.
AuditHosts ==
    LET p == "production"
        u == "uat"
        file(fs, path, on) ==
            IF on THEN Put(MkdirP(fs, path), path, Node("file", "root", "644", "")) ELSE fs
    IN  {[CleanHost EXCEPT
            !.users  = U \cup (IF up THEN {VUserName(u)} ELSE {}),
            !.dbs    = D \cup (IF up THEN {<<VDbName(u), VUserName(u)>>} ELSE {}),
            !.active = A \cup (IF up THEN {VServiceName(u)} ELSE {}),
            !.listen = L \cup (IF up THEN {VPort(u)} ELSE {}),
            !.fs     = file(file(file(file(<<>>, VConfigFile(p), c), VNginxFile(p), n),
                                 VConfigFile(u), up), VNginxFile(u), up)] :
           U \in SUBSET {VUserName(p)},
           D \in SUBSET {<<VDbName(p), VUserName(p)>>, <<ForeignDb, "postgres">>},
           A \in SUBSET {VServiceName(p)},
           L \in SUBSET {VPort(p)},
           c \in BOOLEAN, n \in BOOLEAN, up \in BOOLEAN}

\* one line of the probe log: the probe, the environment and loop position,
\* whether the probed resource was absent, whether the probe command failed,
\* and the value the check function returned
ProbeEntry(probe, absent, broken, value) ==
    [cmd |-> probe, env |-> CurEnv, i |-> idx, strict |-> FALSE, rc |-> 0,
     absent |-> absent, broken |-> broken, value |-> value]

VFrame == NoTrack /\ UNCHANGED <<cfgFiles, sel, run, hostAtStart, prevExit, prevSel,
                                 sub, summary, exitCode, results, idx, other, call, heap, odoo>>

\* the probe commands that can fail now
Breaks == IF faults < MaxFaults THEN BOOLEAN ELSE {FALSE}

\* a check function applied to the output of its probe command
V_Probe(probe, r, absent, broken, value, next) ==
    /\ host' = r.host
    /\ config' = (probe :> value) @@ config
    /\ cmdlog' = Append(cmdlog, ProbeEntry(probe, absent, broken, value))
    /\ faults' = IF broken THEN faults + 1 ELSE faults
    /\ pc' = next
    /\ VFrame

\* python3 verify_odoo.py --environments s, on some host
V_Start ==
    /\ pc = "idle"
    /\ \E s \in Selections : sel' = s
    /\ \E h \in AuditHosts : host' = h /\ hostAtStart' = h
    /\ run' = run + 1
    /\ pc' = "v_loop"
    /\ idx' = 0 /\ sub' = 0
    /\ cmdlog' = <<>> /\ summary' = <<>> /\ results' = <<>> /\ config' = <<>>
    /\ prevExit' = exitCode /\ prevSel' = sel
    /\ exitCode' = NoExit
    /\ NoTrack
    /\ UNCHANGED <<cfgFiles, faults, other, call, heap, odoo>>

\* for env_name in args.environments:
V_Loop ==
    /\ pc = "v_loop"
    /\ idx < Len(sel)
    /\ idx' = idx + 1
    /\ config' = <<>>
    /\ pc' = "v_service"
    /\ NoTrack
    /\ UNCHANGED <<host, cfgFiles, sel, run, hostAtStart, prevExit, prevSel, sub,
                   summary, exitCode, results, faults, cmdlog, other, call, heap, odoo>>

\* service_ok = check_service(service_name)
V_Service ==
    /\ pc = "v_service"
    /\ \E broken \in Breaks :
          LET r == ShVIsActive(host, VServiceName(CurEnv), broken)
          IN  V_Probe("service", r, VServiceName(CurEnv) \notin host.active, broken,
                      CheckService(VRunCommand(r, FALSE)), "v_port")

\* port_ok, port_info = check_port(port)
V_Port ==
    /\ pc = "v_port"
    /\ \E broken \in Breaks :
          LET r == ShVPort(host, VPort(CurEnv), broken)
          IN  V_Probe("port", r, VPort(CurEnv) \notin host.listen, broken,
                      CheckPort(VRunCommand(r, FALSE)), "v_user")

\* user_ok = check_user(user_name)
V_User ==
    /\ pc = "v_user"
    /\ \E broken \in Breaks :
          LET r == ShVId(host, VUserName(CurEnv), broken)
          IN  V_Probe("user", r, VUserName(CurEnv) \notin host.users, broken,
                      CheckUser(VRunCommand(r, FALSE)), "v_db")

\* db_ok = check_database(db_name)
V_Db ==
    /\ pc = "v_db"
    /\ \E broken \in Breaks :
          LET r == ShVDb(host, VDbName(CurEnv), broken)
          IN  V_Probe("db", r, ~\E d \in host.dbs : d[1] = VDbName(CurEnv), broken,
                      CheckDatabase(VRunCommand(r, FALSE)), "v_config")

\* config_ok = os.path.exists(config_file)
V_Config ==
    /\ pc = "v_config"
    /\ V_Probe("config", Ok(host), ~Exists(host, VConfigFile(CurEnv)), FALSE,
               Exists(host, VConfigFile(CurEnv)), "v_nginx")

\* nginx_ok = os.path.exists(nginx_file)
V_Nginx ==
    /\ pc = "v_nginx"
    /\ V_Probe("nginx", Ok(host), ~Exists(host, VNginxFile(CurEnv)), FALSE,
               Exists(host, VNginxFile(CurEnv)), "v_row")

VChecks == <<"service", "port", "user", "db", "config", "nginx">>

\* status = "OK" if all([...]) else "Error"; results.append([...])
V_Row ==
    /\ pc = "v_row"
    /\ results' = Append(results,
                         [env |-> CurEnv, checks |-> config,
                          status |-> \A k \in 1..Len(VChecks) : config[VChecks[k]]])
    /\ pc' = "v_loop"
    /\ NoTrack
    /\ UNCHANGED <<host, cfgFiles, sel, run, hostAtStart, prevExit, prevSel, sub,
                   summary, exitCode, idx, config, faults, cmdlog, other, call, heap, odoo>>

\* print(tabulate(results, ...)) and the access hints; the script ends
V_Table ==
    /\ pc = "v_loop"
    /\ idx = Len(sel)
    /\ summary' = results
    /\ exitCode' = 0
    /\ pc' = "done"
    /\ NoTrack
    /\ UNCHANGED <<host, cfgFiles, sel, run, hostAtStart, prevExit, prevSel, sub,
                   idx, config, results, faults, cmdlog, other, call, heap, odoo>>

NextAudit ==
    \/ V_Start \/ V_Loop \/ V_Service \/ V_Port \/ V_User \/ V_Db
    \/ V_Config \/ V_Nginx \/ V_Row \/ V_Table

\* verify_odoo.py run once on any of the audited hosts
SpecAudit == Init /\ [][NextAudit]_vars

(***************************************************************************)
(* Two verify_odoo.py processes at once on one host.                       *)
(***************************************************************************)
\* The hosts two audits share: production with its user and database, its
\* service running (and listening) or not, its two files present or not, uat
\* fully present or fully absent.
SharedHosts ==
    {h \in AuditHosts :
        /\ VUserName("production") \in h.users
        /\ h.dbs \cap {<<ForeignDb, "postgres">>} = {}
        /\ \E d \in h.dbs : d[1] = VDbName("production")
        /\ (VPort("production") \in h.listen) <=> (VServiceName("production") \in h.active)}

\* the variables of main of one verify_odoo.py process
AuditLocals == [sel |-> sel, idx |-> idx, pc |-> pc, config |-> config,
                results |-> results, cmdlog |-> cmdlog, exitCode |-> exitCode,
                summary |-> summary]

\* the audit that is running, 1 or 2, when the other one is parked
Running == 3 - other.n

\* python3 verify_odoo.py --environments s, with no other audit running
W_Begin(s) ==
    /\ other = NoProc
    /\ sel' = s
    /\ run' = run + 1
    /\ pc' = "v_loop"
    /\ idx' = 0 /\ sub' = 0
    /\ cmdlog' = <<>> /\ summary' = <<>> /\ results' = <<>> /\ config' = <<>>
    /\ prevExit' = exitCode /\ prevSel' = sel
    /\ exitCode' = NoExit
    /\ UNCHANGED <<madeOnce, madeAgain, existsErr, kept>>
    /\ UNCHANGED <<cfgFiles, faults, call, heap, odoo>>

\* the first audit, of any target, on some host
W_First ==
    /\ pc = "idle"
    /\ \E e \in SelEnvs : W_Begin(<<e>>)
    /\ \E h \in SharedHosts : host' = h /\ hostAtStart' = h
    /\ UNCHANGED <<alone, other>>

\* the first audit has printed its table; the second audit, of any target
W_Second ==
    /\ pc = "done" /\ Len(alone) = 0
    /\ \E e \in SelEnvs : W_Begin(<<e>>)
    /\ alone' = <<[sel |-> sel, report |-> summary]>>
    /\ UNCHANGED <<host, hostAtStart, other>>

\* the second audit has printed its table; both are started again, at once:
\* python3 verify_odoo.py -e a  &  python3 verify_odoo.py -e b
W_Both ==
    /\ pc = "done" /\ Len(alone) = 1
    /\ W_Begin(alone[1].sel)
    /\ alone' = Append(alone, [sel |-> sel, report |-> summary])
    /\ other' = [n |-> 2, sel |-> sel, idx |-> 0, pc |-> "v_loop", config |-> <<>>,
                 results |-> <<>>, cmdlog |-> <<>>, exitCode |-> NoExit, summary |-> <<>>]
    /\ UNCHANGED <<host, hostAtStart>>

\* the scheduler runs the other audit: the next statement executed is its
W_Switch ==
    /\ other # NoProc
    /\ other.pc # "done"
    /\ other' = [n |-> Running] @@ AuditLocals
    /\ sel' = other.sel /\ idx' = other.idx /\ pc' = other.pc /\ config' = other.config
    /\ results' = other.results /\ cmdlog' = other.cmdlog
    /\ exitCode' = other.exitCode /\ summary' = other.summary
    /\ NoTrack
    /\ UNCHANGED <<host, cfgFiles, sub, faults, run, hostAtStart, prevExit, prevSel,
                   call, heap, odoo>>

NextAudits ==
    \/ W_First \/ W_Second \/ W_Both \/ W_Switch
    \/ V_Loop \/ V_Service \/ V_Port \/ V_User \/ V_Db
    \/ V_Config \/ V_Nginx \/ V_Row \/ V_Table

\* two audits of one host, each run alone first and then both at once, their
\* statements interleaved in any order
SpecAudits == Init /\ [][NextAudits]_vars

(***************************************************************************)
(* run_command of the three scripts applied to one command outcome.        *)
(***************************************************************************)
Scripts == {"install.py", "install_odoo.py", "verify_odoo.py"}

\* what a command can leave: exit status, captured stdout, captured stderr
CommandOutcomes ==
    [rc : {0, 1}, out : {"", "o", "o\n"}, err : {"", "e", "e2"}]

\* the value run_command of `script` hands to its caller for outcome r
RunCommandOf(script, r, check) ==
    CASE script = "install.py"      -> RunCommandInstall(r, check)
      [] script = "install_odoo.py" -> RunCommandOdoo(r, check)
      [] script = "verify_odoo.py"  -> [raised |-> FALSE, ret |-> VRunCommand(r, check)]

InitCapture ==
    /\ InitRest
    /\ cfgFiles = <<>>
    /\ sel = <<>> /\ idx = 0 /\ pc = "c_call"

\* a caller is about to call run_command(cmd, check) and the command will end
\* with outcome r
C_Call ==
    /\ pc = "c_call"
    /\ \E script \in Scripts, check \in BOOLEAN, r \in CommandOutcomes :
          call' = [script |-> script, check |-> check, r |-> r, result |-> NoCall]
    /\ pc' = "c_run"
    /\ NoTrack
    /\ UNCHANGED <<host, cfgFiles, sel, idx, sub, config, results, summary, exitCode, run,
                   faults, cmdlog, hostAtStart, prevExit, prevSel, other, heap, odoo>>

\* run_command returns (or raises)
C_Return ==
    /\ pc = "c_run"
    /\ call' = [call EXCEPT !.result = RunCommandOf(call.script, call.r, call.check)]
    /\ pc' = "c_returned"
    /\ NoTrack
    /\ UNCHANGED <<host, cfgFiles, sel, idx, sub, config, results, summary, exitCode, run,
                   faults, cmdlog, hostAtStart, prevExit, prevSel, other, heap, odoo>>

NextCapture == C_Call \/ C_Return

\* run_command of each script on every command outcome of the bounded set
SpecCapture == InitCapture /\ [][NextCapture]_vars

(***************************************************************************)
(* install_odoo.py with a command that never returns.                      *)
(***************************************************************************)
\* the statements of main and setup_environment that call run_command now
RunsCommand ==
    \/ pc \in {"deps_update", "deps_install", "reload_nginx", "check_user", "useradd",
               "mkdir", "pip_upgrade", "pip_reqs", "pip_psycopg", "check_role",
               "createuser", "alter_user", "check_db", "createdb", "mv_config",
               "chown_config", "chmod_config", "mv_service", "chmod_service",
               "daemon_reload", "enable", "mv_nginx", "ln_nginx", "chown_home",
               "chown_log", "start", "is_active", "git_clone", "mk_venv"}
    \/ pc = "module_step" /\ ModuleSteps(CurEnv)[sub].op \notin {"open", "write"}

\* run_command: subprocess.run(cmd, shell=True, ...) is called without a
\* timeout; when the child never exits the call never returns
O_Hang ==
    /\ RunsCommand
    /\ pc' = "hung"
    /\ UNCHANGED <<host, faults, exitCode, cmdlog>>
    /\ OnlyHostPc

NextHang == O_StartAny \/ OdooRun \/ OdooSetup \/ O_Hang

\* install_odoo.py run once; any command may hang; the script is always
\* scheduled while it has a statement to execute
SpecHang == Init /\ [][NextHang]_vars /\ WF_vars(NextHang)

(***************************************************************************)
(* install_odoo.py when the started service does not stay up.              *)
(***************************************************************************)
\* 11. sudo systemctl start {prefix}odoo.service on the Type=simple unit of
\* step 7: systemctl answers 0 as soon as the process is forked; the process
\* has exited again (Restart=always, RestartSec=5) when step 12 asks
O_StartCrash ==
    /\ pc = "start"
    /\ Exists(host, ServiceFile(CurEnv))
    /\ O_Strict("systemctl start", CurEnv, Ok(host), "is_active")
    /\ OnlyHostPc

NextCrash == O_StartFirst \/ OdooRun \/ OdooSetup \/ O_StartCrash

\* install_odoo.py run once for one environment whose service may exit
\* right after it was started
SpecCrash == Init /\ [][NextCrash]_vars

(***************************************************************************)
(* setup_project.py, the installer it carries: load_configuration,         *)
(* setup_environments, Environment.__init__.                               *)
(***************************************************************************)
\* A Python value held in a dict: a scalar, or a reference to a mutable
\* object of the heap (objs[ref]).
Scalar(v) == [ref |-> 0, val |-> v]
Ref(n)    == [ref |-> n, val |-> ""]

\* A parsed YAML document by value: None (empty file), or top-level scalars
\* and top-level lists of scalars.
YNone == [none |-> TRUE, top |-> <<>>, lists |-> <<>>]
YDoc(top, lists) == [none |-> FALSE, top |-> top, lists |-> lists]

\* config/default_config.yaml as shipped, cut to the keys of the model, and
\* a default mapping that gives the prefix and holds no list
ShippedDefault ==
    YDoc([odoo_version |-> "16.0", db_host |-> "localhost"],
         [install_modules |-> <<"crm_contacto_comercial", "crm_dashboard_bi">>])
PrefixDefault ==
    YDoc([odoo_version |-> "16.0", port |-> "8069", prefix |-> "base_"], <<>>)

\* per-environment documents: the port, or the port and a module list
PortDoc(e)    == YDoc([port |-> ToString(OPort(e))], <<>>)
ModulesDoc(e) == YDoc([port |-> ToString(OPort(e))], [install_modules |-> <<"crm_" \o e>>])

\* a per-environment document that gives no port
VersionDoc == YDoc([odoo_version |-> "17.0"], <<>>)

\* a per-environment document that names the system user and its home
\* (odoo_home: /srv/odoo_prod, a path like every path of the model)
HomeDoc(e) ==
    YDoc([port |-> ToString(OPort(e)), odoo_user |-> "odoo_prod",
          odoo_home |-> <<"srv", "odoo_prod">>], <<>>)

\* The configuration directories setup_project's installer is run against.
SettingsDirs ==
    LET opt(name, docs) == {<<>>} \cup {(name :> d) : d \in docs}
    IN  {d @@ u @@ q : d \in opt(DefaultPath, {YNone, ShippedDefault, PrefixDefault}),
                       u \in opt(ConfigPath("uat"), {PortDoc("uat"), ModulesDoc("uat")}),
                       q \in opt(ConfigPath("production"),
                                 {YNone, VersionDoc, PortDoc("production"),
                                  ModulesDoc("production"), HomeDoc("production")})}

\* yaml.safe_load of a document that is a mapping: every list becomes a new
\* list object, the mapping a new dict object (the last one allocated)
SafeLoad(objs, doc) ==
    LET lks   == DOMAIN doc.lists
        o1    == IF lks = {} THEN objs
                 ELSE Append(objs, [kind |-> "list",
                                    items |-> doc.lists[CHOOSE k \in lks : TRUE]])
        items == [k \in DOMAIN doc.top \cup lks |->
                     IF k \in lks THEN Ref(Len(o1)) ELSE Scalar(doc.top[k])]
    IN  Append(o1, [kind |-> "dict", items |-> items])

\* d.copy(): a new dict object with the items of d; the values are not copied
DictCopy(objs, id) == Append(objs, objs[id])

\* d[k] = v
SetItem(objs, id, k, v) == [objs EXCEPT ![id].items = (k :> v) @@ @]

SFrame == NoTrack /\ UNCHANGED <<host, cfgFiles, sel, run, hostAtStart, prevExit, prevSel,
                                 sub, config, summary, faults, cmdlog, other, call, odoo>>

\* python3 install.py --environments s --config-dir c [--remote]
S_Start ==
    /\ pc = "idle"
    /\ \E s \in Selections : sel' = s
    /\ \E c \in SettingsDirs : cfgFiles' = c
    /\ \E r \in BOOLEAN : heap' = [NoHeap EXCEPT !.remote = r]
    /\ run' = run + 1
    /\ pc' = "s_default"
    /\ idx' = 0 /\ sub' = 0
    /\ cmdlog' = <<>> /\ summary' = <<>> /\ results' = <<>> /\ config' = <<>>
    /\ prevExit' = exitCode /\ prevSel' = sel
    /\ exitCode' = NoExit
    /\ NoTrack
    /\ UNCHANGED <<host, hostAtStart, faults, other, call, odoo>>

\* load_configuration: the default file must exist (sys.exit(1) otherwise);
\* default_config = yaml.safe_load(f)
S_LoadDefault ==
    /\ pc = "s_default"
    /\ IF DefaultPath \notin DOMAIN cfgFiles
       THEN pc' = "done" /\ exitCode' = 1 /\ UNCHANGED heap
       ELSE /\ pc' = "s_loop" /\ UNCHANGED exitCode
            /\ IF cfgFiles[DefaultPath].none
               THEN UNCHANGED heap
               ELSE LET o == SafeLoad(heap.objs, cfgFiles[DefaultPath])
                    IN  heap' = [heap EXCEPT !.objs = o, !.default_config = Len(o)]
    /\ SFrame /\ UNCHANGED <<idx, results>>

\* load_configuration, one turn of `for env in environments`.  Without a file
\* of the environment the undefined name `logger` is used (NameError); a None
\* default has no copy(), update(None) is a TypeError: main answers every
\* exception with sys.exit(1).
S_Resolve ==
    /\ pc = "s_loop"
    /\ idx < Len(sel)
    /\ idx' = idx + 1
    /\ LET env == sel[idx + 1]
       IN  IF \/ ConfigPath(env) \notin DOMAIN cfgFiles
              \/ heap.default_config = 0
              \/ cfgFiles[ConfigPath(env)].none
           THEN pc' = "done" /\ exitCode' = 1 /\ UNCHANGED heap
           ELSE LET o1 == SafeLoad(heap.objs, cfgFiles[ConfigPath(env)])
                    env_config == Len(o1)
                    o2 == DictCopy(o1, heap.default_config)
                    cfg == Len(o2)
                    o3 == [o2 EXCEPT ![cfg].items =
                              Update(Update(@, o1[env_config].items),
                                     [environment |-> Scalar(env)])]
                IN  /\ heap' = [heap EXCEPT !.objs = o3,
                                            !.configs = DictSet(@, env, cfg)]
                    /\ pc' = "s_loop" /\ UNCHANGED exitCode
    /\ SFrame /\ UNCHANGED results

\* load_configuration returns configs; setup_environments starts its loop
S_Loaded ==
    /\ pc = "s_loop"
    /\ idx = Len(sel)
    /\ pc' = "s_envs" /\ idx' = 0
    /\ SFrame /\ UNCHANGED <<heap, exitCode, results>>

\* The pipeline stages, in order.
Stages == <<"prepareSystem", "configureDatabase", "installApplication", "installExtensions",
            "configureWebServer", "configureFirewall", "startServices">>

\* Environment._validate_config: required_keys
RequiredKeys == {"odoo_version", "port", "prefix"}

\* Environment._get_default_prefix
GetDefaultPrefix(name) ==
    CASE name = "production" -> "prod_"
      [] name = "uat"        -> "uat_"
      [] name = "testing"    -> "test_"
      [] name = "training"   -> "train_"
      [] OTHER               -> name \o "_"

\* the environment and the config object of position idx of configs.items()
SEnv == heap.configs[idx][1]
SCfg == heap.configs[idx][2]

\* setup_environments, one turn: Environment(name, config, logger, remote).
\* __init__ keeps the dict it is given, adds prefix and domain when missing
\* and validates; the ValueError of _validate_config leaves main uncaught.
S_InitEnv ==
    /\ pc = "s_envs"
    /\ idx < Len(heap.configs)
    /\ idx' = idx + 1
    /\ LET name == heap.configs[idx + 1][1]
           cfg  == heap.configs[idx + 1][2]
           o1 == IF "prefix" \in DOMAIN heap.objs[cfg].items THEN heap.objs
                 ELSE SetItem(heap.objs, cfg, "prefix", Scalar(GetDefaultPrefix(name)))
           o2 == IF "domain" \in DOMAIN o1[cfg].items THEN o1
                 ELSE SetItem(o1, cfg, "domain", Scalar(name \o ".example.com"))
       IN  /\ heap' = [heap EXCEPT !.objs = o2]
           /\ IF RequiredKeys \subseteq DOMAIN o2[cfg].items
              THEN pc' = "s_envs" /\ UNCHANGED exitCode
              ELSE pc' = "done" /\ exitCode' = 1
    /\ SFrame /\ UNCHANGED results

\* setup_environments returns; main: results = {}; for env in environments:
S_Main ==
    /\ pc = "s_envs"
    /\ idx = Len(heap.configs)
    /\ pc' = "s_main" /\ idx' = 0
    /\ SFrame /\ UNCHANGED <<heap, exitCode, results>>

\* main: success = env.install() is called for the next environment
S_Install ==
    /\ pc = "s_main"
    /\ idx < Len(heap.configs)
    /\ idx' = idx + 1
    /\ pc' = "s_stage" /\ sub' = 1
    /\ NoTrack
    /\ UNCHANGED <<host, cfgFiles, sel, run, hostAtStart, prevExit, prevSel, config, summary,
                   faults, cmdlog, other, call, odoo, heap, exitCode, results>>

\* RemoteExecutor.run_command: the connection is opened when the first command
\* is sent and kept for the commands that follow
XRunCommand(conns, env) == conns \cup {env}

\* config.get(k, d) on the items of a settings dict
SGet(items, k, d) == IF k \in DOMAIN items THEN items[k].val ELSE d

\* Environment.install: the commands of the seven stages in the order they are
\* run, with the names derived from the settings.  check: whether the local
\* subprocess.run is given check=True (the manager calls raise on failure).
SSteps(items) ==
    LET prefix    == items["prefix"].val
        odoo_user == SGet(items, "odoo_user", prefix \o "odoo")
        odoo_home == SGet(items, "odoo_home", <<"opt", prefix \o "odoo">>)
        port      == SGet(items, "port", "8069")
        C(stage, cmd, check, arg) ==
            [stage |-> stage, cmd |-> cmd, check |-> check, arg |-> arg,
             prefix |-> prefix, user |-> odoo_user, home |-> odoo_home]
    IN  << C("prepareSystem", "apt-get update", TRUE, ""),
           C("prepareSystem", "apt-get install", TRUE, ""),
           C("prepareSystem", "id -u || useradd", TRUE, ""),
           C("configureDatabase", "PostgresManager.setup", TRUE, ""),
           C("installApplication", "OdooManager.clone_odoo", TRUE, ""),
           C("installApplication", "OdooManager.create_odoo_config", TRUE, port),
           C("installApplication", "OdooManager.setup_service", TRUE, ""),
           C("installExtensions", "ModuleInstaller.install", TRUE, "crm_contacto_comercial"),
           C("installExtensions", "ModuleInstaller.install", TRUE, "crm_dashboard_bi"),
           C("configureWebServer", "NginxManager.setup", TRUE, port),
           C("configureFirewall", "ufw allow", FALSE, "22/tcp"),
           C("configureFirewall", "ufw allow", FALSE, "80/tcp"),
           C("configureFirewall", "ufw allow", FALSE, "443/tcp"),
           C("configureFirewall", "ufw allow", FALSE, port \o "/tcp"),
           C("startServices", "systemctl enable", FALSE, ""),
           C("startServices", "systemctl start", FALSE, ""),
           C("startServices", "systemctl restart nginx", FALSE, "") >>

\* The calls to the stage managers (PostgresManager, OdooManager,
\* ModuleInstaller, NginxManager): each ensures the resource its stage is
\* named after, creating it only when it is absent.
XManager(h, st) ==
    LET name  == st.prefix \o "odoo"
        unit  == name \o ".service"
        conf  == <<"etc", name, "odoo.conf">>
        ufile == <<"etc", "systemd", "system", unit>>
        vhost == <<"etc", "nginx", "sites-available", name>>
        link  == <<"etc", "nginx", "sites-enabled", name>>
        mdir  == st.home \o <<"addons", st.arg>>
        file(fs, p, owner, mode, c) ==
            IF p \in DOMAIN fs THEN fs
            ELSE Put(MkdirP(fs, SubSeq(p, 1, Len(p) - 1)), p, Node("file", owner, mode, c))
    IN  CASE st.cmd = "PostgresManager.setup" ->
                 Ok([h EXCEPT !.roles = @ \cup {name},
                              !.dbs = IF \E d \in @ : d[1] = name THEN @
                                      ELSE @ \cup {<<name, name>>}])
          [] st.cmd = "OdooManager.clone_odoo" ->
                 IF Exists(h, st.home \o <<"odoo">>) THEN Ok(h)
                 ELSE ShGitClone(h, st.home \o <<"odoo">>)
          [] st.cmd = "OdooManager.create_odoo_config" ->
                 Ok([h EXCEPT !.fs = file(@, conf, st.user, "640",
                                          [kind |-> "odoo.conf", http_port |-> st.arg])])
          [] st.cmd = "OdooManager.setup_service" ->
                 Ok([h EXCEPT !.fs = file(@, ufile, "root", "644",
                                          [kind |-> "unit", User |-> st.user]),
                              !.loaded = @ \cup {unit}])
          [] st.cmd = "ModuleInstaller.install" ->
                 Ok([h EXCEPT !.fs = MkdirP(@, mdir)])
          [] st.cmd = "NginxManager.setup" ->
                 Ok([h EXCEPT !.fs = Put(file(@, vhost, "root", "644",
                                              [kind |-> "vhost", server |-> st.arg]),
                                         link, Node("link", "root", "777", vhost))])

\* what the command of step st does on host h
SRun(h, st) ==
    LET unit == st.prefix \o "odoo.service"
    IN  CASE st.cmd = "apt-get update"   -> ShAptUpdate(h)
          [] st.cmd = "apt-get install"  -> ShAptInstall(h)
          [] st.cmd = "id -u || useradd" -> ShIdOrUserAdd(h, st.user, st.home)
          [] st.cmd = "ufw allow"        -> ShUfwAllow(h, st.arg)
          [] st.cmd = "systemctl enable" ->
                 ShEnable(h, unit, <<"etc", "systemd", "system", unit>>)
          [] st.cmd = "systemctl start"  ->
                 ShStart(h, unit, <<"etc", "systemd", "system", unit>>)
          [] st.cmd = "systemctl restart nginx" -> ShRestartNginx(h)
          [] OTHER -> XManager(h, st)

\* the next command of Environment.install has run and returned r: the log
\* line, the host it leaves, and where install goes on.  A command that is
\* checked (every command sent through the executor; locally those run with
\* check=True and the manager calls) raises on a non-zero status: except
\* Exception: return False.  After the last command return True.
\* main: results[env.name] = success
S_Ran(st, r, last) ==
    LET strict == heap.remote \/ st.check
    IN  /\ cmdlog' = Append(cmdlog, Entry(st.cmd, SEnv, strict, r))
        /\ host' = r.host
        /\ faults' = IF r.fault THEN faults + 1 ELSE faults
        /\ heap' = IF heap.remote THEN [heap EXCEPT !.conns = XRunCommand(@, SEnv)]
                   ELSE heap
        /\ IF strict /\ r.rc # 0
           THEN pc' = "s_main" /\ sub' = 0 /\ results' = DictSet(results, SEnv, FALSE)
           ELSE IF last
                THEN pc' = "s_main" /\ sub' = 0 /\ results' = DictSet(results, SEnv, TRUE)
                ELSE pc' = "s_stage" /\ sub' = sub + 1 /\ UNCHANGED results

\* Environment.install, one command of a stage: it goes to self.executor when
\* there is one, to subprocess otherwise, and blocks until it has returned
S_Command ==
    /\ pc = "s_stage"
    /\ LET steps == SSteps(heap.objs[SCfg].items)
       IN  \E r \in Exec(SRun(host, steps[sub])) : S_Ran(steps[sub], r, sub = Len(steps))
    /\ NoTrack
    /\ UNCHANGED <<cfgFiles, sel, run, hostAtStart, prevExit, prevSel, config, summary,
                   other, call, odoo, idx, exitCode>>

\* the executor cannot open the connection for the command it is given: the
\* command is not run, install returns False
S_ConnectFails ==
    /\ pc = "s_stage"
    /\ heap.remote /\ SEnv \notin heap.conns
    /\ faults < MaxFaults
    /\ faults' = faults + 1
    /\ pc' = "s_main" /\ sub' = 0 /\ results' = DictSet(results, SEnv, FALSE)
    /\ NoTrack
    /\ UNCHANGED <<host, cfgFiles, sel, run, hostAtStart, prevExit, prevSel, config, summary,
                   cmdlog, heap, other, call, odoo, idx, exitCode>>

\* main: print_summary; return 0 if all(results.values()) else 1
S_Summary ==
    /\ pc = "s_main"
    /\ idx = Len(heap.configs)
    /\ summary' = results
    /\ exitCode' = IF \A j \in 1..Len(results) : results[j][2] THEN 0 ELSE 1
    /\ pc' = "done"
    /\ NoTrack
    /\ UNCHANGED <<host, cfgFiles, sel, run, hostAtStart, prevExit, prevSel, config,
                   faults, cmdlog, other, call, odoo, heap, idx, sub, results>>

NextSettings ==
    \/ S_Start \/ S_LoadDefault \/ S_Resolve \/ S_Loaded \/ S_InitEnv \/ S_Main
    \/ S_Install \/ S_Command \/ S_ConnectFails \/ S_Summary

\* the installer carried by setup_project.py run once, locally or --remote
SpecSettings == Init /\ [][NextSettings]_vars

(***************************************************************************)
(* crm_contacto_comercial: CrmLead.create inside Odoo requests.            *)
(***************************************************************************)
MaxTx == 2        \* requests (database transactions) of the one user
MaxCreates == 3   \* create calls made over all requests
MaxDepth == 2     \* a create called from inside super().create of another

Txs == 1..MaxTx

\* the create call of request t that is executing (the innermost one)
Top(t) == odoo.tx[t].stack[Len(odoo.tx[t].stack)]

\* The rows request t can see.  Odoo runs a request in one database
\* transaction at isolation level REPEATABLE READ: the request sees its own
\* rows and the rows of the requests that had committed when it began.
Visible(t) ==
    {m \in DOMAIN odoo.msgs : odoo.msgs[m].tx = t \/ odoo.msgs[m].tx \in odoo.tx[t].snap}

\* res_id of message m as request t sees it: what t wrote, if it wrote a row
\* of another request, which stays in t's transaction until t commits
ResId(t, m) ==
    IF m \in DOMAIN odoo.tx[t].writes THEN odoo.tx[t].writes[m] ELSE odoo.msgs[m].res_id

\* self.env['mail.message'].search([('model', '=', 'crm.lead'), ('res_id', '=', 0),
\* ('author_id', '=', ...)], limit=1): the first match in the order of
\* mail.message, which Odoo declares as newest first; 0 stands for the empty
\* recordset
SearchMessage(t) ==
    LET found == {m \in Visible(t) : ResId(t, m) = 0}
    IN  IF found = {} THEN 0 ELSE CHOOSE m \in found : \A o \in found : o <= m

LFrame == NoTrack /\ UNCHANGED <<host, cfgFiles, sel, idx, pc, sub, config, results, summary,
                                 exitCode, run, faults, cmdlog, hostAtStart, prevExit,
                                 prevSel, other, call, heap>>

\* the server is up: requests can arrive
L_Open ==
    /\ odoo = NoDb
    /\ odoo' = [odoo EXCEPT !.tx = [t \in Txs |-> [status |-> "idle", stack |-> <<>>, n |-> 0,
                                                  snap |-> {}, writes |-> <<>>]]]
    /\ LFrame

\* request t arrives: its transaction begins
L_Begin(t) ==
    /\ odoo # NoDb
    /\ odoo.tx[t].status = "idle"
    /\ odoo' = [odoo EXCEPT !.tx[t].status = "open",
                            !.tx[t].snap = {u \in Txs : odoo.tx[u].status = "committed"}]
    /\ LFrame

\* create(vals) without contacto_comercial_id and origin_type # 'contacto',
\* called by the request or from inside super().create of its running call:
\* the warning message is created with res_id 0
L_CreateMessage(t) ==
    /\ odoo # NoDb
    /\ odoo.tx[t].status = "open"
    /\ Len(odoo.msgs) < MaxCreates
    /\ \/ odoo.tx[t].stack = <<>>
       \/ /\ odoo.tx[t].stack # <<>>
          /\ Len(odoo.tx[t].stack) < MaxDepth
          /\ Top(t).pc = "msg_made"
    /\ LET c == odoo.tx[t].n + 1
       IN  odoo' = [odoo EXCEPT
                    !.msgs = Append(@, [res_id |-> 0, tx |-> t, call |-> c]),
                    !.tx[t].n = c,
                    !.tx[t].stack = Append(@, [pc |-> "msg_made", lead |-> 0, call |-> c,
                                              mensaje |-> 0])]
    /\ LFrame

\* lead = super(CrmLead, self).create(vals)
L_SuperCreate(t) ==
    /\ odoo # NoDb
    /\ odoo.tx[t].stack # <<>>
    /\ Top(t).pc = "msg_made"
    /\ LET d == Len(odoo.tx[t].stack)
       IN  odoo' = [odoo EXCEPT
                    !.leads = Append(@, [tx |-> t, call |-> Top(t).call]),
                    !.tx[t].stack[d].pc = "lead_made",
                    !.tx[t].stack[d].lead = Len(odoo.leads) + 1]
    /\ LFrame

\* super().create raises (a required field, a constraint of another module):
\* create has no try block, the exception leaves it with the message in
\* place.  Nothing in the calling request catches it: the request ends and
\* its transaction is rolled back
L_Raise(t) ==
    /\ odoo # NoDb
    /\ odoo.tx[t].stack # <<>>
    /\ Top(t).pc = "msg_made"
    /\ odoo' = [odoo EXCEPT !.tx[t].status = "rolled back", !.tx[t].stack = <<>>,
                            !.tx[t].writes = <<>>]
    /\ LFrame

\* super().create raises and the code that called create catches the
\* exception and goes on in the same transaction: the call has ended, no
\* lead was made, the message it created stays
L_RaiseCaught(t) ==
    /\ odoo # NoDb
    /\ odoo.tx[t].stack # <<>>
    /\ Top(t).pc = "msg_made"
    /\ odoo' = [odoo EXCEPT !.tx[t].stack = SubSeq(@, 1, Len(@) - 1)]
    /\ LFrame

\* mensaje = self.env['mail.message'].search([...], limit=1)
L_Search(t) ==
    /\ odoo # NoDb
    /\ odoo.tx[t].stack # <<>>
    /\ Top(t).pc = "lead_made"
    /\ LET d == Len(odoo.tx[t].stack)
       IN  odoo' = [odoo EXCEPT !.tx[t].stack[d].pc = "searched",
                                !.tx[t].stack[d].mensaje = SearchMessage(t)]
    /\ LFrame

\* if mensaje: mensaje.write({'res_id': lead.id});  return lead
\* The write is made in the transaction of the request: on a row the request
\* created it changes that row, which no other request sees before the
\* commit; on a committed row of another request it waits while an open
\* request has written the row, and stays with the writer until it commits.
L_Write(t) ==
    /\ odoo # NoDb
    /\ odoo.tx[t].stack # <<>>
    /\ Top(t).pc = "searched"
    /\ LET mensaje == Top(t).mensaje
           d == Len(odoo.tx[t].stack)
           own == mensaje # 0 /\ odoo.msgs[mensaje].tx = t
       IN  /\ (mensaje # 0 /\ ~own) =>
                 \A u \in Txs \ {t} :
                    odoo.tx[u].status = "open" => mensaje \notin DOMAIN odoo.tx[u].writes
           /\ odoo' = [odoo EXCEPT
                       !.msgs = IF own THEN [@ EXCEPT ![mensaje].res_id = Top(t).lead] ELSE @,
                       !.tx[t].writes = IF mensaje # 0 /\ ~own
                                        THEN (mensaje :> Top(t).lead) @@ @ ELSE @,
                       !.tx[t].stack = SubSeq(@, 1, d - 1)]
    /\ LFrame

\* the request ends without an exception: its transaction is committed and
\* what it wrote on rows of other requests becomes their content
L_Commit(t) ==
    /\ odoo # NoDb
    /\ odoo.tx[t].status = "open"
    /\ odoo.tx[t].stack = <<>>
    /\ odoo.tx[t].n > 0
    /\ odoo' = [odoo EXCEPT
                !.msgs = [m \in DOMAIN @ |->
                            IF m \in DOMAIN odoo.tx[t].writes
                            THEN [@[m] EXCEPT !.res_id = odoo.tx[t].writes[m]] ELSE @[m]],
                !.tx[t].writes = <<>>,
                !.tx[t].status = "committed"]
    /\ LFrame

NextLeads ==
    \/ L_Open
    \/ \E t \in Txs : \/ L_Begin(t) \/ L_CreateMessage(t) \/ L_SuperCreate(t) \/ L_Raise(t)
                      \/ L_RaiseCaught(t) \/ L_Search(t) \/ L_Write(t) \/ L_Commit(t)

\* MaxTx concurrent requests of one user that create up to MaxCreates leads
SpecLeads == Init /\ [][NextLeads]_vars

(***************************************************************************)
(* Properties.                                                             *)
(***************************************************************************)
Finished == pc = "done" /\ exitCode # NoExit

LogOf(i) == {k \in DOMAIN cmdlog : cmdlog[k].i = i}

\* a strict command of loop position i returned a non-zero status
Failed(i) == \E k \in LogOf(i) : cmdlog[k].strict /\ cmdlog[k].rc # 0

\* setup_environment of install_odoo.py reached its last statement for position i
Completed(i) == \E k \in LogOf(i) : cmdlog[k].cmd = "systemctl is-active"

\* C1: when the pipeline of one selected target fails, the pipeline of every
\* other selected target is still run to completion.
C1_FailureIsolation ==
    Finished =>
        \A i, j \in 1..Len(sel) :
            (i # j /\ Failed(j) /\ ~Failed(i)) => Completed(i)

\* the commands whose only purpose is to answer "does it exist / is it up"
IsExistenceCheck(e) == ~e.strict

\* C2: a second run for the same targets right after a successful one ends in
\* the host state the first run left, and every command it executes is an
\* existence check.
C2_SecondRunOnlyChecks ==
    (Finished /\ run >= 2 /\ prevExit = 0 /\ prevSel = sel) =>
        /\ host = hostAtStart
        /\ \A k \in DOMAIN cmdlog : IsExistenceCheck(cmdlog[k])

\* C3: in the system-user step useradd is invoked exactly once when the user is
\* absent at the existence check and not at all when the user exists.
C3_UserStep ==
    pc = "i_return" =>
        LET user == IOdooUser(config, CurEnv)
            adds == {k \in LogOf(idx) : cmdlog[k].cmd = "useradd"}
            absentBefore == user \notin host.users \/ \E k \in adds : cmdlog[k].rc = 0
        IN  IF absentBefore THEN Cardinality(adds) = 1 ELSE adds = {}

\* C4: over successive runs no guarded creation (user, role, database, config
\* file, unit file, vhost file) succeeds twice, none is attempted on a resource
\* that exists, so no run fails because the resource already exists.
C4_CreateAtMostOnce == madeAgain = {} /\ existsErr = {}

\* the selected targets whose pipeline ran and met no failing strict command
AllTargetsSucceeded == \A i \in 1..Len(sel) : LogOf(i) # {} /\ ~Failed(i)

\* C5: the installer exits 0 iff the pipeline of every selected target
\* succeeded, and 1 otherwise.
C5_ExitCode ==
    Finished =>
        /\ exitCode \in {0, 1}
        /\ (exitCode = 0) <=> AllTargetsSucceeded

\* C6: once a strict command of a target returns non-zero, no later command of
\* that target is executed in the run and the target is recorded as failed.
C6_StrictAborts ==
    \A k \in DOMAIN cmdlog :
        (cmdlog[k].i > 0 /\ cmdlog[k].strict /\ cmdlog[k].rc # 0) =>
            /\ \A m \in LogOf(cmdlog[k].i) : m <= k
            /\ Finished => \E j \in DOMAIN results : results[j] = <<cmdlog[k].env, FALSE>>

\* C7: every finished run that got to its targets has printed a summary with an
\* entry for every selected target.
C7_SummaryAlways ==
    (Finished /\ idx > 0) =>
        \A i \in 1..Len(sel) : \E j \in DOMAIN summary : summary[j][1] = sel[i]

\* the documents the running resolution layered
DefaultMap  == IF DefaultPath \in DOMAIN cfgFiles THEN cfgFiles[DefaultPath].map ELSE <<>>
OverrideMap == IF ConfigPath(CurEnv) \in DOMAIN cfgFiles
               THEN cfgFiles[ConfigPath(CurEnv)].map ELSE <<>>

Layered(keys) ==
    /\ \A k \in (DOMAIN DefaultMap \cap DOMAIN OverrideMap) \cap keys :
          config[k] = OverrideMap[k]
    /\ \A k \in (DOMAIN DefaultMap \ DOMAIN OverrideMap) \cap keys :
          config[k] = DefaultMap[k]

\* C8 as stated: every key of both mappings resolves to the override's value,
\* every key of the default mapping alone to the default's value.
C8_AnyKey == pc = "r_resolved" => Layered(CfgKeys)

\* C8 amended: the same for every key other than `environment`, which always
\* resolves to the target's name.
C8_LayeringPrecedence ==
    pc = "r_resolved" =>
        /\ Layered(CfgKeys \ {"environment"})
        /\ config["environment"] = CurEnv

\* default port 8069 and a uat override of 8070 resolved to 8070
C8_Witness ==
    /\ pc = "r_resolved" /\ CurEnv = "uat"
    /\ "port" \in DOMAIN DefaultMap /\ DefaultMap["port"] = "8069"
    /\ "port" \in DOMAIN OverrideMap /\ OverrideMap["port"] = "8070"
    /\ "odoo_version" \in DOMAIN DefaultMap \ DOMAIN OverrideMap
    /\ config["port"] = "8070" /\ config["odoo_version"] = "16.0"

\* install.py is inside setup_environment for the current target
InPipeline == pc \in {"i_apt_update", "i_apt_install", "i_user", "i_return"}

\* C9: no pipeline is entered, and no provisioning command run, for a target
\* whose resolved settings lack a required key.
C9_RequiredKeys ==
    (InPipeline \/ LogOf(idx) # {}) /\ idx > 0 => RequiredKeys \subseteq DOMAIN config

\* C10: no pipeline is entered for a target that has neither a default mapping
\* file nor a mapping file of its own.
C10_NoFilesNoPipeline ==
    InPipeline => (DefaultPath \in DOMAIN cfgFiles \/ ConfigPath(CurEnv) \in DOMAIN cfgFiles)

\* the resolution of the settings of loop position i raises
ConfigError(i) == LoadEnvironmentConfig(cfgFiles, sel[i]).raised

\* C11: a configuration error of one target is fatal to that target only: the
\* target is recorded as failed and every other selected target is still
\* resolved and provisioned.
C11_ConfigErrorIsolated ==
    (Finished /\ idx > 0) =>
        \A i \in 1..Len(sel) :
            ConfigError(i) =>
                /\ \E j \in DOMAIN results : results[j] = <<sel[i], FALSE>>
                /\ \A k \in 1..Len(sel) :
                      (sel[k] # sel[i] /\ ~ConfigError(k)) => LogOf(k) # {}

\* the names setup_environment derives for environment e: bare names, paths
\* and listening ports
DerivedNames(e) ==
    {OdooUser(e), DbUser(e), DbName(e), ServiceName(e),
     NginxContent(e).upstream, NginxContent(e).chat}
DerivedPaths(e) ==
    {OdooHome(e), OdooLogDir(e), OdooConfigDir(e), OdooAddonsDir(e), OdooSrcDir(e),
     VenvDir(e), ConfigFile(e), ServiceFile(e), NginxConf(e), NginxLink(e)}
DerivedPorts(e) ==
    {ConfigContent(e).http_port, ConfigContent(e).longpolling_port,
     NginxContent(e).server, NginxContent(e).chat_server}

\* the derived names, paths and ports of any two distinct targets are
\* disjoint, and no path of one lies under a path of the other
NamespacesDisjoint ==
    \A a, b \in EnvNames :
        a # b =>
            /\ DerivedNames(a) \cap DerivedNames(b) = {}
            /\ DerivedPaths(a) \cap DerivedPaths(b) = {}
            /\ DerivedPorts(a) \cap DerivedPorts(b) = {}
            /\ \A p \in DerivedPaths(a), q \in DerivedPaths(b) : ~IsUnder(p, q)

\* C12: for any two distinct targets the derived names, paths and listening
\* ports (service port and port + 1000) are disjoint, no path of one target
\* lies under a directory of the other, and what the pipelines have put on the
\* host for one target is never owned by the user of another.
C12_NamespaceIsolation ==
    /\ NamespacesDisjoint
    /\ \A a, b \in EnvNames :
          a # b => \A p \in DerivedPaths(a) \cap DOMAIN host.fs :
                      host.fs[p].owner # OdooUser(b)

\* production and uat were both provisioned on one host and their config
\* files carry different ports
C12_Witness ==
    /\ Finished
    /\ {OdooUser("production"), OdooUser("uat")} \subseteq host.users
    /\ \A e \in {"production", "uat"} : <<DbName(e), DbUser(e)>> \in host.dbs
    /\ {ConfigFile("production"), ConfigFile("uat"),
        NginxConf("production"), NginxConf("uat")} \subseteq DOMAIN host.fs
    /\ host.fs[ConfigFile("production")].content.http_port
          # host.fs[ConfigFile("uat")].content.http_port

\* C13: a probe whose resource is absent, or whose command failed, returns
\* false.
C13_ProbeFalseOnAbsence ==
    \A k \in DOMAIN cmdlog :
        ("absent" \in DOMAIN cmdlog[k] /\ (cmdlog[k].absent \/ cmdlog[k].broken))
            => ~cmdlog[k].value

\* the row the verifier appended for loop position i
RowOf(i) == results[i]

\* C14: the overall-pass flag of a row is true iff its six checks are true,
\* and a target whose service is stopped gets service-active false and
\* overall-pass false.
C14_OverallPass ==
    \A i \in DOMAIN results :
        ("checks" \in DOMAIN results[i]) =>
            /\ DOMAIN RowOf(i).checks = {VChecks[k] : k \in 1..Len(VChecks)}
            /\ RowOf(i).status <=> (\A c \in DOMAIN RowOf(i).checks : RowOf(i).checks[c])
            /\ VServiceName(RowOf(i).env) \notin host.active =>
                  (~RowOf(i).checks["service"] /\ ~RowOf(i).status)

\* a stopped service with the five other checks true is reported as failed,
\* and a target with all six resources as passed
C14_Witness ==
    /\ pc = "done" /\ Len(results) = 2
    /\ "checks" \in DOMAIN results[1]
    /\ VServiceName(results[1].env) \notin host.active
    /\ \A c \in DOMAIN results[1].checks : c # "service" => results[1].checks[c]
    /\ ~results[1].status
    /\ results[2].status

\* C15: an audit changes no system state, alone or beside another audit, and
\* when no probe command fails each of two audits whose statements are
\* interleaved prints the report it printed when it ran alone.
C15_AuditReadsOnly ==
    /\ host = hostAtStart
    /\ (Len(alone) = 2 /\ faults = 0) =>
          /\ pc = "done" => summary = alone[Running].report
          /\ other.pc = "done" => other.summary = alone[other.n].report

\* the audit of one target has printed its report, the same as when it ran
\* alone, while the audit of another target, whose report differs, is between
\* two of its probes
C15_Witness ==
    /\ Len(alone) = 2 /\ faults = 0
    /\ pc = "done" /\ other.pc = "v_db"
    /\ sel # other.sel
    /\ summary = alone[Running].report
    /\ alone[1].report[1].status # alone[2].report[1].status

\* the artifacts of environment e and their intended content
Artifacts(e) ==
    {<<ConfigFile(e), ConfigContent(e)>>, <<ServiceFile(e), ServiceContent(e)>>,
     <<NginxConf(e), NginxContent(e)>>}

Interrupted == pc = "done" /\ exitCode = 128 + 2

\* C16: after an interruption the final path of every artifact is absent or
\* holds the complete intended content.
C16_AtomicArtifacts ==
    Interrupted =>
        \A e \in SelEnvs : \A a \in Artifacts(e) :
            Exists(host, a[1]) => host.fs[a[1]].content = a[2]

\* The stage each command of setup_environment (install_odoo.py) belongs to;
\* commands that fit several stages (systemctl enable, the two chown -R) are
\* left out.
StageCommands ==
    [prepareSystem      |-> {"id -u", "useradd", "mkdir -p"},
     configureDatabase  |-> {"psql pg_roles", "createuser", "psql ALTER USER", "psql -lqt",
                             "createdb"},
     installApplication |-> {"git clone", "python3 -m venv", "pip install --upgrade pip",
                             "pip install -r", "pip install psycopg2-binary", "mv config",
                             "chown config", "chmod config", "mv unit", "chmod unit",
                             "systemctl daemon-reload"},
     installExtensions  |-> {"mkdir -p module", "mv module file", "chown -R module"},
     configureWebServer |-> {"mv vhost", "ln -sf"},
     configureFirewall  |-> {"ufw allow"},
     startServices      |-> {"systemctl start", "systemctl is-active"}]

\* log positions of loop position i that ran a command of stage number n
StageLog(i, n) == {k \in LogOf(i) : cmdlog[k].cmd \in StageCommands[Stages[n]]}

\* C17: in a successful run every stage of a target is executed, and no
\* command of a stage runs before every command of the stages before it.
C17_StageOrder ==
    (Finished /\ exitCode = 0) =>
        \A i \in 1..Len(sel) :
            /\ \A n \in 1..Len(Stages) : StageLog(i, n) # {}
            /\ \A n, m \in 1..Len(Stages) :
                  n < m => \A k \in StageLog(i, n), l \in StageLog(i, m) : k < l

\* the final state of an uninterrupted successful run for environment e
Provisioned(h, e) ==
    /\ Exists(h, ConfigFile(e))
    /\ h.fs[ConfigFile(e)].owner = OdooUser(e)
    /\ h.fs[ConfigFile(e)].mode = "640"
    /\ ServiceName(e) \in h.enabled
    /\ Exists(h, NginxLink(e))
    /\ <<VenvDir(e), "requirements.txt">> \in h.pip
    /\ <<DbUser(e), DbPassword(e)>> \in h.rolePw
    /\ \A k \in 1..Len(ModuleSteps(e)) :
          ModuleSteps(e)[k].op = "mv" => Exists(h, ModuleSteps(e)[k].dest)

\* C18: a run that ends successfully, also one that follows a failed run,
\* leaves each of its targets in the final state of an uninterrupted run.
C18_RerunRecovers ==
    (Finished /\ exitCode = 0) => \A i \in 1..Len(sel) : Provisioned(host, sel[i])

BothDone == other # NoProc /\ pc = "done" /\ other.pc = "done"

\* C19: two pipelines for distinct targets run concurrently end as they do
\* when run one after the other: without any command fault both succeed and
\* each target has its own artifacts and its full final state.
C19_ConcurrentAsSequential ==
    (BothDone /\ faults = 0) =>
        /\ exitCode = 0 /\ other.exitCode = 0
        /\ \A e \in {sel[1], other.sel[1]} :
              /\ Provisioned(host, e)
              /\ \A a \in Artifacts(e) : Exists(host, a[1]) /\ host.fs[a[1]].content = a[2]

\* a captured stream the result of run_command does not hold
Lost == "<lost>"

\* the captured streams a caller can read from what run_command handed over:
\* install.py returns (success, text), text being stdout on status 0, stderr
\* on a tolerated non-zero status and the exception text otherwise;
\* install_odoo.py and verify_odoo.py return the stripped stdout, or raise
Carried(c) ==
    CASE c.script = "install.py" ->
             [stdout |-> IF c.result.ok THEN c.result.out ELSE Lost,
              stderr |-> IF ~c.result.ok /\ ~c.check THEN c.result.out ELSE Lost]
      [] OTHER ->
             [stdout |-> IF c.result.raised \/ (c.check /\ c.r.rc # 0) THEN Lost
                         ELSE c.result.ret,
              stderr |-> Lost]

\* C20: the result of a command carries its captured stdout and its captured
\* stderr, separately, for zero and for non-zero exit status.
C20_BothStreamsKept ==
    pc = "c_returned" =>
        /\ Carried(call).stdout = call.r.out
        /\ Carried(call).stderr = call.r.err

\* C21: every run terminates even when a command hangs: the hung command is
\* cut off and the run goes on to its end.
C21_HangIsCutOff == (pc = "hung") ~> (pc = "done")

\* the generated artifacts: name in the command log, final path, temporary file
ArtifactKinds == {"config", "unit", "vhost"}
FinalPath(a, e) ==
    CASE a = "config" -> ConfigFile(e) [] a = "unit" -> ServiceFile(e) [] a = "vhost" -> NginxConf(e)
TempPath(a) ==
    CASE a = "config" -> TempConfig [] a = "unit" -> TempService [] a = "vhost" -> TempNginx

\* C22: every artifact that is moved into place has its ownership set and then
\* its permission bits set, both after the move, and neither is set before it.
C22_MoveChownChmod ==
    \A a \in ArtifactKinds : \A i \in 1..Len(sel) :
        /\ (Finished /\ exitCode = 0) =>
              \A k \in LogOf(i) :
                  (cmdlog[k].cmd = "mv " \o a /\ cmdlog[k].rc = 0) =>
                      \E c, m \in LogOf(i) :
                          /\ k < c /\ c < m
                          /\ cmdlog[c].cmd = "chown " \o a
                          /\ cmdlog[m].cmd = "chmod " \o a
        /\ \A c \in LogOf(i) :
              cmdlog[c].cmd \in {"chown " \o a, "chmod " \o a} =>
                  \E k \in LogOf(i) : k < c /\ cmdlog[k].cmd = "mv " \o a /\ cmdlog[k].rc = 0

\* C23: an artifact whose final path exists when a pass of the run checks for
\* it is the same file (content, owner, mode) at every later point of the run,
\* and no temporary file is written for it: the temporary file of that
\* artifact is, until the pass ends, what it was at the check.
C23_ExistingUntouched ==
    \A k \in DOMAIN kept :
        LET i == k[1]
            a == k[2]
            p == FinalPath(a, sel[i])
        IN  /\ Exists(host, p) /\ host.fs[p] = kept[k].file
            /\ idx = i => NodeAt(host, TempPath(a)) = kept[k].temp

\* a second run, over two targets, finished: the three artifacts of the first
\* target were in place since the first run and were skipped, those of the
\* second were written through the same three temporary files and moved
C23_Witness ==
    /\ Finished /\ exitCode = 0 /\ run = 2
    /\ Len(sel) = 2 /\ sel[1] # sel[2]
    /\ \A a \in ArtifactKinds :
          /\ <<1, a>> \in DOMAIN kept
          /\ <<2, a>> \notin DOMAIN kept
          /\ \E m \in LogOf(2) : cmdlog[m].cmd = "mv " \o a /\ cmdlog[m].rc = 0

\* the executions of the host-wide package commands in the running invocation
PackageRuns(cmd) == {k \in DOMAIN cmdlog : cmdlog[k].cmd = cmd}

\* C24: in one invocation the package index update and the package install
\* are each executed at most once, however many targets are selected.
C24_PackagesOnce ==
    /\ Cardinality(PackageRuns("apt update")) <= 1
    /\ Cardinality(PackageRuns("apt install")) <= 1

\* the mutable objects reachable from dict object id: itself and its lists
Reach(id) ==
    {id} \cup {heap.objs[id].items[k].ref :
                 k \in {j \in DOMAIN heap.objs[id].items : heap.objs[id].items[j].ref # 0}}

\* the content of dict object id, lists by value
DeepValue(id) ==
    [k \in DOMAIN heap.objs[id].items |->
        LET v == heap.objs[id].items[k]
        IN  IF v.ref = 0 THEN [list |-> FALSE, v |-> <<v.val>>]
            ELSE [list |-> TRUE, v |-> heap.objs[v.ref].items]]

\* the content of a parsed document
DocValue(doc) ==
    [k \in DOMAIN doc.top \cup DOMAIN doc.lists |->
        IF k \in DOMAIN doc.lists THEN [list |-> TRUE, v |-> doc.lists[k]]
        ELSE [list |-> FALSE, v |-> <<doc.top[k]>>]]

\* C25: the default mapping keeps the content it was loaded with, and the
\* settings of a target are a deep copy: no mutable object of one target's
\* settings belongs to the default mapping or to another target's settings.
C25_SettingsIndependent ==
    heap.default_config # 0 =>
        /\ DeepValue(heap.default_config) = DocValue(cfgFiles[DefaultPath])
        /\ \A i \in DOMAIN heap.configs :
              /\ Reach(heap.configs[i][2]) \cap Reach(heap.default_config) = {}
              /\ \A j \in DOMAIN heap.configs :
                    i # j => Reach(heap.configs[i][2]) \cap Reach(heap.configs[j][2]) = {}

\* C26: no connection of a target is open after Environment.install has
\* returned for it, with True or with False.
C26_ConnectionClosed ==
    \A j \in DOMAIN results : results[j][1] \notin heap.conns

\* C27: without a configured prefix every installer entry point derives the
\* prefix verify_odoo.py probes: the ENVIRONMENTS table of install_odoo.py,
\* _get_default_prefix of Environment, and setup_environment of install.py.
C27_PrefixAgrees ==
    \A e \in EnvNames :
        /\ OPrefix(e) = VEnvironments[e].prefix
        /\ GetDefaultPrefix(e) = VEnvironments[e].prefix
        /\ (InPipeline /\ CurEnv = e /\ "prefix" \notin DOMAIN config) =>
              /\ IPrefix(config, e) = VEnvironments[e].prefix
              /\ IOdooUser(config, e) = VUserName(e)

\* C28: a successful run that created the vhost of a target ends with that
\* vhost loaded by the running proxy.
C28_ProxyLoadsVhost ==
    (Finished /\ exitCode = 0) =>
        \A i \in 1..Len(sel) :
            (\E k \in LogOf(i) : cmdlog[k].cmd = "ln -sf" /\ cmdlog[k].rc = 0) =>
                NginxLink(sel[i]) \in host.nginx

\* C29: setup_environment returns True only if its is-active check answered
\* "active".
C29_SuccessMeansActive ==
    \A k \in DOMAIN cmdlog :
        (cmdlog[k].cmd = "systemctl is-active" /\ pc \in {"loop", "done"}) =>
            cmdlog[k].rc = 0

\* the rows of requests that were not rolled back
Live(t) == odoo.tx[t].status # "rolled back"

\* create call c of request t has ended: it returned its lead or raised
Ended(t, c) ==
    /\ Live(t)
    /\ c <= odoo.tx[t].n
    /\ \A f \in DOMAIN odoo.tx[t].stack : odoo.tx[t].stack[f].call # c

\* C30: once a create call has ended, the message it created is not left with
\* res_id 0 and is on the lead that call created, and the lead of the call has
\* exactly one warning message.
C30_OneWarningPerLead ==
    odoo # NoDb =>
        /\ \A m \in DOMAIN odoo.msgs :
              Ended(odoo.msgs[m].tx, odoo.msgs[m].call) =>
                  /\ odoo.msgs[m].res_id # 0
                  /\ odoo.leads[odoo.msgs[m].res_id].tx = odoo.msgs[m].tx
                  /\ odoo.leads[odoo.msgs[m].res_id].call = odoo.msgs[m].call
        /\ \A l \in DOMAIN odoo.leads :
              Ended(odoo.leads[l].tx, odoo.leads[l].call) =>
                  Cardinality({m \in DOMAIN odoo.msgs :
                                  Live(odoo.msgs[m].tx) /\ odoo.msgs[m].res_id = l}) = 1

====
